---- MODULE Spec2Model ----
(***************************************************************************)
(* ConcordeVM: the cooperative scheduler (scheduler.rs), the byte codec    *)
(* and linear memory it writes through (memory.rs) and the interrupts the  *)
(* interpreter raises (instructions.rs).                                   *)
(*                                                                         *)
(* Conventions.  A Rust Vec<u8> is a sequence of bytes; vec[i] of the      *)
(* source is mem[i + 1] here.  Option<T> is a sequence of length 0 (None)  *)
(* or 1 (Some).  A HashMap is a function whose DOMAIN is its key set.  A   *)
(* Rust panic! (explicit, or an index out of range) unwinds out of every   *)
(* caller: the operators return res.tag = "Panic" together with the state  *)
(* as it was when the panic was raised.                                    *)
(***************************************************************************)
EXTENDS Integers, Sequences, FiniteSets, TLC

\* ---------------------------------------------------------------- bounds
MaxCoros == 2        \* spawn_coro is called at most this many times
MaxQueue == 4        \* pushes on the ready queue stop at this length
MaxCalls == 4        \* calls made on the scheduler from outside the run loop

\* ------------------------------------------------------ program constants
WordBytes == 8       \* size_of::<usize>() / size_of::<i64>()

\* --------------------------------------------------------------- results
NoBytes == <<>>

Ok(v)      == [tag |-> "Ok",    val |-> v,       msg |-> ""]
Err(m)     == [tag |-> "Err",   val |-> NoBytes, msg |-> m]
Panic(m)   == [tag |-> "Panic", val |-> NoBytes, msg |-> m]

MsgCoroNotFound     == "Coroutine not found"
MsgFutureNotFound   == "Future not found"
MsgAwaitMissing     == "Awaited future which does not exist"
MsgDoubleComplete   == "Tried to set value for future which is not Waiting"
MsgNoCoroToRun      == "the scheduler cannot exit a state where there is no coro to be run"
MsgCurrNotFound     == "Current coroutine not found"
MsgIndex            == "index out of bounds"
MsgUnimplemented    == "Unimplemented operation!"
MsgCallerError      == "error value"
MsgDivisionByZero   == "Division by zero error"
MsgMemcpy           == "Tried memcpy past the max memory address"
MsgOverflow         == "attempt to compute with overflow"
MsgUtf8             == "invalid UTF-8"

\* ---------------------------------------------------------------- memory
Zeros(n) == [i \in 1..n |-> 0]

\* Memory::new(size)
MemoryNew(size) == Zeros(size)

\* Memory::extend_memory(n): append n zero bytes
extend_memory(mem, n) == mem \o Zeros(n)

\* Memory::extend_memory_to(n): grow to n bytes, never shrink
extend_memory_to(mem, n) ==
    IF Len(mem) >= n THEN mem ELSE mem \o Zeros(n - Len(mem))

\* impl_for_numerics write_bytes_to: vec[address + offset] = bytes[offset]
RECURSIVE NumWriteFrom(_, _, _, _)
NumWriteFrom(vec, address, bytes, offset) ==
    IF offset >= Len(bytes) THEN [mem |-> vec, panic |-> FALSE]
    ELSE IF address + offset >= Len(vec) THEN [mem |-> vec, panic |-> TRUE]
    ELSE NumWriteFrom([vec EXCEPT ![address + offset + 1] = bytes[offset + 1]],
                      address, bytes, offset + 1)

num_write_bytes_to(vec, address, bytes) == NumWriteFrom(vec, address, bytes, 0)

\* impl ByteSerialisable for Vec<u8>, write_bytes_to:
\*   for (offset, value) in self.iter().enumerate()
\*       vec[address + offset] = self[address + offset]
RECURSIVE VecWriteFrom(_, _, _, _)
VecWriteFrom(vec, address, self, offset) ==
    IF offset >= Len(self) THEN [mem |-> vec, panic |-> FALSE]
    ELSE IF address + offset >= Len(self) THEN [mem |-> vec, panic |-> TRUE]
    ELSE IF address + offset >= Len(vec) THEN [mem |-> vec, panic |-> TRUE]
    ELSE VecWriteFrom([vec EXCEPT ![address + offset + 1] = self[address + offset + 1]],
                      address, self, offset + 1)

vec_write_bytes_to(vec, address, self) == VecWriteFrom(vec, address, self, 0)

\* Memory::write(address, data) for a Vec<u8>
MemoryWrite(mem, address, data) == vec_write_bytes_to(mem, address, data)

\* usize::to_ne_bytes on a little-endian target
RECURSIVE LeBytes(_, _)
LeBytes(x, n) == IF n = 0 THEN <<>> ELSE <<x % 256>> \o LeBytes(x \div 256, n - 1)

usize_to_bytes(x) == LeBytes(x, WordBytes)

\* Memory::read(address, n): the n bytes at [address, address + n)
MemoryRead(mem, address, n) ==
    IF address + n > Len(mem) THEN [bytes |-> NoBytes, panic |-> TRUE]
    ELSE [bytes |-> SubSeq(mem, address + 1, address + n), panic |-> FALSE]

\* i8::from_ne_bytes of the byte at address (Memory::read_typed::<i8>)
I8(b) == IF b < 128 THEN b ELSE b - 256

\* An i64 is kept as the 8 bytes of its two's complement representation, the
\* least significant first (to_ne_bytes / from_ne_bytes on a little-endian
\* target), so that every operation has the full width of the type.
\* Memory::read_typed::<i64>(address): the slice [address, address + 8) must exist
read_typed_i64(mem, address) ==
    IF address + WordBytes > Len(mem) THEN [val |-> Zeros(WordBytes), panic |-> TRUE]
    ELSE [val |-> SubSeq(mem, address + 1, address + WordBytes), panic |-> FALSE]

IsNeg(x) == x[Len(x)] >= 128

Not(x) == [i \in 1..Len(x) |-> 255 - x[i]]

\* x + y + carry modulo 256^Len(x), byte by byte
RECURSIVE AddFrom(_, _, _, _)
AddFrom(x, y, carry, i) ==
    IF i > Len(x) THEN <<>>
    ELSE LET t == x[i] + y[i] + carry
         IN <<t % 256>> \o AddFrom(x, y, t \div 256, i + 1)

wrapping_add(x, y) == AddFrom(x, y, 0, 1)
wrapping_sub(x, y) == AddFrom(x, Not(y), 1, 1)
wrapping_neg(x)    == AddFrom(Zeros(Len(x)), Not(x), 1, 1)

add_overflows(x, y) == IsNeg(x) = IsNeg(y) /\ IsNeg(wrapping_add(x, y)) # IsNeg(x)
sub_overflows(x, y) == IsNeg(x) # IsNeg(y) /\ IsNeg(wrapping_sub(x, y)) # IsNeg(x)

SignExtend(x, n) == x \o [i \in 1..(n - Len(x)) |-> IF IsNeg(x) THEN 255 ELSE 0]

\* x * y modulo 256^Len(x), column by column
RECURSIVE ColSum(_, _, _, _)
ColSum(x, y, k, i) == IF i > k THEN 0 ELSE x[i] * y[k + 1 - i] + ColSum(x, y, k, i + 1)

RECURSIVE MulFrom(_, _, _, _)
MulFrom(x, y, carry, k) ==
    IF k > Len(x) THEN <<>>
    ELSE LET t == ColSum(x, y, k, 1) + carry
         IN <<t % 256>> \o MulFrom(x, y, t \div 256, k + 1)

\* the exact product, as a signed integer of twice the width
wide_mul(x, y) == MulFrom(SignExtend(x, 2 * Len(x)), SignExtend(y, 2 * Len(x)), 0, 1)
wrapping_mul(x, y) == SubSeq(wide_mul(x, y), 1, Len(x))
mul_overflows(x, y) == wide_mul(x, y) # SignExtend(wrapping_mul(x, y), 2 * Len(x))

\* unsigned and signed order
ULt(x, y) == \E i \in 1..Len(x) : x[i] < y[i] /\ \A j \in (i + 1)..Len(x) : x[j] = y[j]
i64_lt(x, y) == IF IsNeg(x) # IsNeg(y) THEN IsNeg(x) ELSE ULt(x, y)

\* unsigned division, one bit of the dividend at a time
Bit(x, i) == (x[(i \div 8) + 1] \div (2 ^ (i % 8))) % 2

\* 2 * x + bit modulo 256^Len(x)
Shl1(x, bit) ==
    [i \in 1..Len(x) |-> (2 * x[i] + (IF i = 1 THEN bit ELSE x[i - 1] \div 128)) % 256]

RECURSIVE UDivFrom(_, _, _, _)
UDivFrom(a, b, i, acc) ==
    IF i < 0 THEN acc
    ELSE LET r1 == Shl1(acc.r, Bit(a, i))
         IN IF ULt(r1, b)
            THEN UDivFrom(a, b, i - 1, [q |-> Shl1(acc.q, 0), r |-> r1])
            ELSE UDivFrom(a, b, i - 1, [q |-> Shl1(acc.q, 1), r |-> wrapping_sub(r1, b)])

\* the bytes of a above its most significant non-zero byte add nothing
udivrem(a, b) ==
    LET used == {i \in 1..Len(a) : a[i] # 0}
        top  == IF used = {} THEN 0 ELSE CHOOSE i \in used : \A j \in used : j <= i
    IN UDivFrom(a, b, 8 * top - 1, [q |-> Zeros(Len(a)), r |-> Zeros(Len(a))])

Mag(x) == IF IsNeg(x) THEN wrapping_neg(x) ELSE x

\* the operators / and % of i64 for a divisor other than 0: the quotient is
\* truncated towards zero, the remainder has the sign of the dividend;
\* i64::MIN / -1 and i64::MIN % -1 overflow, which panics in every build
divrem_overflows(a, b) ==
    a = [i \in 1..Len(a) |-> IF i = Len(a) THEN 128 ELSE 0] /\ b = Not(Zeros(Len(b)))

i64_div(a, b) ==
    LET q == udivrem(Mag(a), Mag(b)).q
    IN IF IsNeg(a) = IsNeg(b) THEN q ELSE wrapping_neg(q)

i64_rem(a, b) ==
    LET r == udivrem(Mag(a), Mag(b)).r
    IN IF IsNeg(a) THEN wrapping_neg(r) ELSE r

\* ------------------------------------------- the other codecs of memory.rs
\* impl ByteSerialisable for bool: write_bytes_to stores 1 or 0 at address
bool_write_bytes_to(vec, address, b) ==
    IF address >= Len(vec) THEN [mem |-> vec, panic |-> TRUE]
    ELSE [mem |-> [vec EXCEPT ![address + 1] = IF b THEN 1 ELSE 0], panic |-> FALSE]

\* Memory::read_typed::<bool>(address): one byte, true exactly when it is 1
read_typed_bool(mem, address) ==
    IF address + 1 > Len(mem) THEN [val |-> FALSE, panic |-> TRUE]
    ELSE [val |-> (mem[address + 1] = 1), panic |-> FALSE]

\* A String is the sequence of its chars (Unicode scalar values).
\* str.len(): the number of bytes of the UTF-8 encoding
Utf8Char(c) ==
    IF c < 128 THEN <<c>>
    ELSE IF c < 2048 THEN <<192 + (c \div 64), 128 + (c % 64)>>
    ELSE IF c < 65536 THEN <<224 + (c \div 4096), 128 + ((c \div 64) % 64), 128 + (c % 64)>>
    ELSE <<240 + (c \div 262144), 128 + ((c \div 4096) % 64),
           128 + ((c \div 64) % 64), 128 + (c % 64)>>

RECURSIVE Utf8(_)
Utf8(s) == IF s = <<>> THEN <<>> ELSE Utf8Char(Head(s)) \o Utf8(Tail(s))

\* impl ByteSerialisable for String, to_bytes: self.chars().map(|c| c as u8)
string_to_bytes(s) == [i \in 1..Len(s) |-> s[i] % 256]

\* impl ByteSerialisable for String, get_size: self.len()
string_get_size(s) == Len(Utf8(s))

\* impl ByteSerialisable for String, write_bytes_to:
\*   for (offset, c) in self.chars().enumerate() { vec[address + offset] = c as u8 }
string_write_bytes_to(vec, address, s) == NumWriteFrom(vec, address, string_to_bytes(s), 0)

\* String::from_utf8: the chars of a well-formed UTF-8 byte sequence, or invalid
IsCont(b) == b >= 128 /\ b <= 191

RECURSIVE FromUtf8(_)
FromUtf8(bytes) ==
    IF bytes = <<>> THEN [chars |-> <<>>, ok |-> TRUE]
    ELSE LET b0 == bytes[1]
             n  == IF b0 < 128 THEN 1
                   ELSE IF b0 >= 194 /\ b0 <= 223 THEN 2
                   ELSE IF b0 >= 224 /\ b0 <= 239 THEN 3
                   ELSE IF b0 >= 240 /\ b0 <= 244 THEN 4
                   ELSE 0
         IN IF n = 0 \/ Len(bytes) < n \/ \E i \in 2..n : ~IsCont(bytes[i])
            THEN [chars |-> <<>>, ok |-> FALSE]
            ELSE LET c == CASE n = 1 -> b0
                            [] n = 2 -> (b0 - 192) * 64 + (bytes[2] - 128)
                            [] n = 3 -> (b0 - 224) * 4096 + (bytes[2] - 128) * 64
                                           + (bytes[3] - 128)
                            [] n = 4 -> (b0 - 240) * 262144 + (bytes[2] - 128) * 4096
                                           + (bytes[3] - 128) * 64 + (bytes[4] - 128)
                     wellformed ==
                          /\ (n = 3 => c >= 2048 /\ ~(c >= 55296 /\ c <= 57343))
                          /\ (n = 4 => c >= 65536 /\ c <= 1114111)
                     rest == FromUtf8(SubSeq(bytes, n + 1, Len(bytes)))
                 IN IF wellformed /\ rest.ok
                    THEN [chars |-> <<c>> \o rest.chars, ok |-> TRUE]
                    ELSE [chars |-> <<>>, ok |-> FALSE]

\* mem::size_of::<String>() and mem::size_of::<Vec<u8>>() on a 64-bit target
SizeOfString == 24

\* impl ByteSerialisable for String, from_bytes: the bytes before the first
\* NUL, which must be UTF-8 (expect panics otherwise)
string_from_bytes(bytes) ==
    LET nuls == {i \in 1..Len(bytes) : bytes[i] = 0}
        end  == IF nuls = {} THEN Len(bytes)
                ELSE (CHOOSE i \in nuls : \A j \in nuls : i <= j) - 1
        d    == FromUtf8(SubSeq(bytes, 1, end))
    IN [val |-> d.chars, panic |-> ~d.ok]

\* Memory::read_typed::<String>(address): the slice has size_of::<String>() bytes
read_typed_String(mem, address) ==
    IF address + SizeOfString > Len(mem) THEN [val |-> <<>>, panic |-> TRUE]
    ELSE string_from_bytes(SubSeq(mem, address + 1, address + SizeOfString))

\* Memory::memcpy(source, dest, n): the bound is the capacity of the Vec, the
\* copy runs forward one byte at a time, an index at or past len() panics
RECURSIVE MemcpyFrom(_, _, _, _, _)
MemcpyFrom(mem, source, dest, n, offset) ==
    IF offset >= n THEN [mem |-> mem, panic |-> FALSE]
    ELSE IF source + offset >= Len(mem) \/ dest + offset >= Len(mem)
    THEN [mem |-> mem, panic |-> TRUE]
    ELSE MemcpyFrom([mem EXCEPT ![dest + offset + 1] = mem[source + offset + 1]],
                    source, dest, n, offset + 1)

\* a mutant of memcpy: the loop runs over 0..n-1 exclusive, one byte short
memcpy_short(mem, capacity, source, dest, n) ==
    IF (IF source > dest THEN source ELSE dest) + n <= capacity
    THEN LET r == MemcpyFrom(mem, source, dest, IF n > 0 THEN n - 1 ELSE 0, 0)
         IN [mem |-> r.mem, res |-> IF r.panic THEN Panic(MsgIndex) ELSE Ok(NoBytes)]
    ELSE [mem |-> mem, res |-> Err(MsgMemcpy)]

memcpy(mem, capacity, source, dest, n) ==
    IF (IF source > dest THEN source ELSE dest) + n <= capacity
    THEN LET r == MemcpyFrom(mem, source, dest, n, 0)
         IN [mem |-> r.mem, res |-> IF r.panic THEN Panic(MsgIndex) ELSE Ok(NoBytes)]
    ELSE [mem |-> mem, res |-> Err(MsgMemcpy)]

\* ------------------------------------------------------------- hash maps
MapPut(m, k, v) == (k :> v) @@ m
MapDel(m, k)    == [x \in (DOMAIN m) \ {k} |-> m[x]]
EmptyMap        == [x \in {} |-> 0]

\* the orders in which a HashSet may be iterated
Orders(set) ==
    {o \in [1..Cardinality(set) -> set] : \A i, j \in DOMAIN o : o[i] = o[j] => i = j}

\* ---------------------------------------------------- scheduler: the data
\* struct Scheduler, as one record
Scheduler(cs, fs, q, cid, fid, run) ==
    [coroutines |-> cs, futures |-> fs, ready_queue |-> q,
     new_spawned_coro_id |-> cid, new_spawned_future_id |-> fid, running |-> run]

\* Scheduler::new()
SchedulerNew == Scheduler(EmptyMap, EmptyMap, <<>>, 0, 0, FALSE)

\* Coroutine::new(id, priority, program): Runnable, nothing awaited, no result
\* future yet, CPU::with_program(0, program)
CoroutineNew(id, priority, pc) ==
    [id |-> id, priority |-> priority, state |-> "Runnable",
     depends_on |-> EmptyMap, dependant |-> <<>>,
     memory |-> MemoryNew(0), pc |-> pc]

\* Coroutine::await_future(future_id, write_location)
CoroutineAwaitFuture(co, future_id, write_location) ==
    [co EXCEPT !.depends_on = MapPut(co.depends_on, future_id, write_location),
               !.state = "Suspended"]

\* Future::add_dependant
add_dependant(fut, coroutine_id) ==
    [fut EXCEPT !.dependants = fut.dependants \cup {coroutine_id}]

\* Future::set_complete
set_complete(fut) == [fut EXCEPT !.state = "Complete"]

\* ------------------------------------------------ scheduler: the methods
\* a mutant of get_new_fut_id: the counter is returned before it is incremented
get_new_fut_id_old(S) ==
    [S |-> [S EXCEPT !.new_spawned_future_id = S.new_spawned_future_id + 1],
     id |-> S.new_spawned_future_id]

\* Scheduler::get_new_fut_id / get_new_coro_id: increment, then return
get_new_fut_id(S) ==
    [S |-> [S EXCEPT !.new_spawned_future_id = S.new_spawned_future_id + 1],
     id |-> S.new_spawned_future_id + 1]

get_new_coro_id(S) ==
    [S |-> [S EXCEPT !.new_spawned_coro_id = S.new_spawned_coro_id + 1],
     id |-> S.new_spawned_coro_id + 1]

\* Scheduler::spawn_fut(dep): dep is an Option<Id>
spawn_fut(S, dep) ==
    LET n == get_new_fut_id(S)
        fut == [id |-> n.id, state |-> "Waiting",
                dependants |-> {dep[i] : i \in DOMAIN dep},
                value |-> <<>>]
    IN [S |-> [n.S EXCEPT !.futures = MapPut(n.S.futures, n.id, fut)], id |-> n.id]

\* a mutant of spawn_coro: the memory is sized for the arguments, which are
\* not written
spawn_coro_noargs(S, pc, priority, args) ==
    LET c    == get_new_coro_id(S)
        f    == spawn_fut(c.S, <<c.id>>)
        mem0 == extend_memory_to(CoroutineNew(c.id, priority, pc).memory, Len(args))
        co   == [CoroutineNew(c.id, priority, pc) EXCEPT
                    !.dependant = <<f.id>>,
                    !.memory = mem0]
    IN [S |-> [f.S EXCEPT !.coroutines = MapPut(f.S.coroutines, c.id, co),
                          !.ready_queue = Append(f.S.ready_queue, c.id)],
        res |-> Ok(<<f.id>>)]

\* Scheduler::spawn_coro(program, priority, args); program is the shared
\* instruction vector with its entry pc
spawn_coro(S, pc, priority, args) ==
    LET c    == get_new_coro_id(S)
        f    == spawn_fut(c.S, <<c.id>>)
        mem0 == extend_memory_to(CoroutineNew(c.id, priority, pc).memory, Len(args))
        co   == [CoroutineNew(c.id, priority, pc) EXCEPT
                    !.dependant = <<f.id>>,
                    !.memory = MemoryWrite(mem0, 0, args).mem]
    IN [S |-> [f.S EXCEPT !.coroutines = MapPut(f.S.coroutines, c.id, co),
                          !.ready_queue = Append(f.S.ready_queue, c.id)],
        res |-> Ok(<<f.id>>)]

\* a mutant of await_future: a future that does not exist is created
await_future_creates(S, coroutine_id, future_id, write_location) ==
    IF coroutine_id \notin DOMAIN S.coroutines THEN [S |-> S, res |-> Err(MsgCoroNotFound)]
    ELSE LET S0 == IF future_id \in DOMAIN S.futures THEN S ELSE spawn_fut(S, <<>>).S
             S1 == [S0 EXCEPT !.coroutines[coroutine_id] =
                        CoroutineAwaitFuture(@, future_id, write_location)]
         IN [S |-> IF future_id \in DOMAIN S1.futures
                   THEN [S1 EXCEPT !.futures[future_id] = add_dependant(@, coroutine_id)]
                   ELSE S1,
             res |-> Ok(NoBytes)]

\* a mutant of await_future: an unknown future is not rejected
await_future_unchecked(S, coroutine_id, future_id, write_location) ==
    IF coroutine_id \notin DOMAIN S.coroutines THEN [S |-> S, res |-> Err(MsgCoroNotFound)]
    ELSE LET S1 == [S EXCEPT !.coroutines[coroutine_id] =
                        CoroutineAwaitFuture(@, future_id, write_location)]
         IN [S |-> IF future_id \in DOMAIN S.futures
                   THEN [S1 EXCEPT !.futures[future_id] = add_dependant(@, coroutine_id)]
                   ELSE S1,
             res |-> Ok(NoBytes)]

\* Scheduler::await_future(coroutine_id, future_id, write_location)
await_future(S, coroutine_id, future_id, write_location) ==
    IF coroutine_id \notin DOMAIN S.coroutines THEN [S |-> S, res |-> Err(MsgCoroNotFound)]
    ELSE IF future_id \notin DOMAIN S.futures THEN [S |-> S, res |-> Panic(MsgAwaitMissing)]
    ELSE [S |-> [S EXCEPT !.coroutines[coroutine_id] =
                              CoroutineAwaitFuture(@, future_id, write_location),
                          !.futures[future_id] = add_dependant(@, coroutine_id)],
          res |-> Ok(NoBytes)]

\* the body of the wake-up loop of complete_future, and of complete_future_for:
\* mark Runnable, push, write the value at the recorded address, forget the future
WakeOne(S, future_id, coroutine_id, val) ==
    IF coroutine_id \notin DOMAIN S.coroutines THEN [S |-> S, panic |-> FALSE]
    ELSE LET co == S.coroutines[coroutine_id]
             S1 == [S EXCEPT !.coroutines[coroutine_id].state = "Runnable",
                             !.ready_queue = Append(@, coroutine_id)]
         IN IF future_id \in DOMAIN co.depends_on
            THEN LET w == MemoryWrite(co.memory, co.depends_on[future_id], val)
                 IN IF w.panic
                    THEN [S |-> [S1 EXCEPT !.coroutines[coroutine_id].memory = w.mem],
                          panic |-> TRUE]
                    ELSE [S |-> [S1 EXCEPT !.coroutines[coroutine_id].memory = w.mem,
                                           !.coroutines[coroutine_id].depends_on =
                                                MapDel(@, future_id)],
                          panic |-> FALSE]
            ELSE [S |-> S1, panic |-> FALSE]

\* for coroutine_id in &future.dependants { ... }, in the iteration order given
RECURSIVE WakeAll(_, _, _, _, _)
WakeAll(S, future_id, val, order, k) ==
    IF k > Len(order) THEN [S |-> S, panic |-> FALSE]
    ELSE LET r == WakeOne(S, future_id, order[k], val)
         IN IF r.panic THEN r ELSE WakeAll(r.S, future_id, val, order, k + 1)

\* a mutant of complete_future: the future is marked Complete before the
\* value is looked at
complete_future_marks_first(S, future_id, value, order) ==
    IF future_id \notin DOMAIN S.futures THEN [S |-> S, res |-> Err(MsgFutureNotFound)]
    ELSE IF S.futures[future_id].state # "Waiting"
         THEN [S |-> S, res |-> Panic(MsgDoubleComplete)]
    ELSE IF value.tag = "Err"
         THEN [S |-> [S EXCEPT !.futures[future_id] = set_complete(@)],
               res |-> Err(value.msg)]
    ELSE LET S1 == [S EXCEPT !.futures[future_id].value = <<value.val>>,
                             !.futures[future_id] = set_complete(@)]
             r  == WakeAll(S1, future_id, value.val, order, 1)
         IN IF r.panic THEN [S |-> r.S, res |-> Panic(MsgIndex)]
            ELSE [S |-> [r.S EXCEPT !.futures[future_id].dependants = {}],
                  res |-> Ok(NoBytes)]

\* a mutant of complete_future: a future that is not Waiting is overwritten
complete_future_overwrite(S, future_id, value, order) ==
    IF future_id \notin DOMAIN S.futures THEN [S |-> S, res |-> Err(MsgFutureNotFound)]
    ELSE IF value.tag = "Err" THEN [S |-> S, res |-> Err(value.msg)]
    ELSE LET S1 == [S EXCEPT !.futures[future_id].value = <<value.val>>,
                             !.futures[future_id].state = "Complete"]
             r  == WakeAll(S1, future_id, value.val, order, 1)
         IN IF r.panic THEN [S |-> r.S, res |-> Panic(MsgIndex)]
            ELSE [S |-> [r.S EXCEPT !.futures[future_id].dependants = {}],
                  res |-> Ok(NoBytes)]

\* Scheduler::complete_future(future_id, value); order is the order in which
\* the HashSet of dependants is iterated
complete_future(S, future_id, value, order) ==
    IF future_id \notin DOMAIN S.futures THEN [S |-> S, res |-> Err(MsgFutureNotFound)]
    ELSE IF S.futures[future_id].state # "Waiting"
         THEN [S |-> S, res |-> Panic(MsgDoubleComplete)]
    ELSE IF value.tag = "Err" THEN [S |-> S, res |-> Err(value.msg)]
    ELSE LET S1 == [S EXCEPT !.futures[future_id].value = <<value.val>>,
                             !.futures[future_id] = set_complete(@)]
             r  == WakeAll(S1, future_id, value.val, order, 1)
         IN IF r.panic THEN [S |-> r.S, res |-> Panic(MsgIndex)]
            ELSE [S |-> [r.S EXCEPT !.futures[future_id].dependants = {}],
                  res |-> Ok(NoBytes)]

\* Scheduler::complete_future_for(future_id, coroutine_id)
complete_future_for(S, future_id, coroutine_id) ==
    IF future_id \notin DOMAIN S.futures
    THEN [S |-> S, res |-> Panic("Supposedly complete future not found")]
    ELSE IF S.futures[future_id].value = <<>>
    THEN [S |-> S, res |-> Panic("Future complete but no value")]
    ELSE LET r == WakeOne(S, future_id, coroutine_id, S.futures[future_id].value[1])
         IN [S |-> r.S, res |-> IF r.panic THEN Panic(MsgIndex) ELSE Ok(NoBytes)]

\* Scheduler::delete_future(future_id)
delete_future(S, future_id) ==
    [S EXCEPT !.futures = MapDel(@, future_id)]

\* a mutant of get_next_runnable: the front entry is returned as it is
get_next_runnable_unchecked(S) ==
    IF S.ready_queue = <<>> THEN [S |-> S, id |-> <<>>]
    ELSE [S |-> [S EXCEPT !.ready_queue = Tail(@)], id |-> <<Head(S.ready_queue)>>]

\* a mutant of get_next_runnable: the newest entry is taken first
RECURSIVE get_next_runnable_lifo(_)
get_next_runnable_lifo(S) ==
    IF S.ready_queue = <<>> THEN [S |-> S, id |-> <<>>]
    ELSE LET n  == Len(S.ready_queue)
             id == S.ready_queue[n]
             S1 == [S EXCEPT !.ready_queue = SubSeq(@, 1, n - 1)]
         IN IF id \in DOMAIN S.coroutines /\ S.coroutines[id].state = "Runnable"
            THEN [S |-> S1, id |-> <<id>>]
            ELSE get_next_runnable_lifo(S1)

\* Scheduler::get_next_runnable(): pop from the front until a Runnable
\* coroutine of the table is found
RECURSIVE get_next_runnable(_)
get_next_runnable(S) ==
    IF S.ready_queue = <<>> THEN [S |-> S, id |-> <<>>]
    ELSE LET id == Head(S.ready_queue)
             S1 == [S EXCEPT !.ready_queue = Tail(@)]
         IN IF id \in DOMAIN S.coroutines /\ S.coroutines[id].state = "Runnable"
            THEN [S |-> S1, id |-> <<id>>]
            ELSE get_next_runnable(S1)

\* Scheduler::yield_coroutine(coroutine_id)
yield_coroutine(S, coroutine_id) ==
    IF coroutine_id \notin DOMAIN S.coroutines THEN [S |-> S, res |-> Err(MsgCoroNotFound)]
    ELSE [S |-> [S EXCEPT !.coroutines[coroutine_id].state = "Runnable",
                          !.ready_queue = Append(@, coroutine_id)],
          res |-> Ok(NoBytes)]

\* Scheduler::finish_coroutine(coroutine_id, result)
finish_coroutine(S, coroutine_id, result, order) ==
    IF coroutine_id \notin DOMAIN S.coroutines THEN [S |-> S, res |-> Err(MsgCoroNotFound)]
    ELSE LET S1 == [S EXCEPT !.coroutines[coroutine_id].state = "Finished"]
             co == S1.coroutines[coroutine_id]
         IN IF co.dependant # <<>>
            THEN complete_future(S1, co.dependant[1], result, order)
            ELSE [S |-> S1, res |-> Ok(NoBytes)]

\* ----------------------------------------------------------- instructions
\* concordeisa Instruction, the variants the scheduler reacts to
Instr(op, a, b, c, d, bytes) == [op |-> op, a |-> a, b |-> b, c |-> c, d |-> d, bytes |-> bytes]

NoOp                           == Instr("NoOp", 0, 0, 0, 0, <<>>)
WriteBytesToSymbol(addr, v)    == Instr("WriteBytesToSymbol", addr, 0, 0, 0, v)
MemExtend(n)                   == Instr("MemExtend", n, 0, 0, 0, <<>>)
Await(fut_id, addr)            == Instr("Await", fut_id, addr, 0, 0, <<>>)
CreateCoroutine(dest, arg_addr, n_arg_bytes, write_addr) ==
    Instr("CreateCoroutine", dest, arg_addr, n_arg_bytes, write_addr, <<>>)
Return(addr, n)                == Instr("Return", addr, n, 0, 0, <<>>)
DeleteFuture(fut_id)           == Instr("DeleteFuture", fut_id, 0, 0, 0, <<>>)
DivideSymbols(a, b, dest)      == Instr("DivideSymbols", a, b, dest, 0, <<>>)
ModuloSymbols(a, b, dest)      == Instr("ModuloSymbols", a, b, dest, 0, <<>>)

\* ------------------------------------------------------------ the inputs
MissingFut == 999    \* the future id of the scenario "Await(fid=999, 0)"

\* the programs a client may load; instruction k of the source is Programs[p][k + 1]
ProgSpawnAwait   == << CreateCoroutine(3, 0, 1, 1), Await(2, 0), Return(0, 1), Return(0, 1) >>

ProgPadded       == << CreateCoroutine(5, 0, 1, 1), NoOp, Await(2, 0), NoOp,
                       Return(0, 1), Return(0, 1) >>
ProgAwaitMissing == << Await(MissingFut, 0) >>
ProgAwaitSelf    == << Await(1, 0), NoOp, Return(0, 0) >>
ProgRet          == << Return(0, 0), WriteBytesToSymbol(0, <<3>>), Return(0, 1) >>
ProgMisc         == << NoOp, DeleteFuture(1), Return(0, 0), MemExtend(1) >>
ProgChildEof     == << CreateCoroutine(4, 0, 0, 0), NoOp, Await(2, 0), NoOp, NoOp >>

ProgChildFault   == << CreateCoroutine(4, 0, 0, 0), NoOp, Await(2, 0), NoOp, MemExtend(1) >>
ProgDiv          == << DivideSymbols(0, 1, 0), DivideSymbols(0, 2, 0), Return(0, 1) >>
ProgMod          == << ModuloSymbols(0, 1, 0), ModuloSymbols(0, 1, 0), Return(0, 1) >>

ProgSpawnLast    == << NoOp, CreateCoroutine(2, 0, 0, 0) >>

Programs == << ProgSpawnAwait, ProgPadded, ProgAwaitMissing,
               ProgAwaitSelf, ProgRet, ProgMisc, ProgChildEof,
               ProgChildFault, ProgDiv, ProgMod, ProgSpawnLast >>

Priorities == {0, 3}
ArgsSet    == { <<>>, <<1, 2, 0, 0, 0, 0, 0, 0, 0, 0>> }
ValueSet   == { Ok(<<7>>), Err(MsgCallerError) }
Addrs      == {0, 1}
CoroIds    == 1..MaxCoros
FutIds     == 1..MaxCoros

\* ------------------------------------------------------------- the state
VARIABLES
    coroutines,              \* Scheduler.coroutines
    futures,                 \* Scheduler.futures
    ready_queue,             \* Scheduler.ready_queue
    new_spawned_coro_id,     \* Scheduler._new_spawned_coro_id
    new_spawned_future_id,   \* Scheduler._new_spawned_future_id
    running,                 \* Scheduler.running
    program,                 \* the instruction vector shared by every coroutine
    curr_coro_id,            \* the local curr_coro_id of _run
    phase,                   \* where control is: "idle" (outside _run), "running"
                             \* (inside the loop of _run), "panicked"
    entry,                   \* which entry point started the loop: "none", "run", "_run"
    calls,                   \* number of calls made from outside so far
    last,                    \* the operation that acted last, its inputs and outcome
    cpu,                     \* one Memory and one Program driven through execute_instruction
    ir,                      \* the instruction execute_instruction ran last, the state
                             \* it started from and its outcome
    io                       \* the files on disk and the streams of one ConcordeIO

vars == << coroutines, futures, ready_queue, new_spawned_coro_id, new_spawned_future_id,
           running, program, curr_coro_id, phase, entry, calls, last, cpu, ir, io >>

\* the scheduler and its run loop
schedVars == << coroutines, futures, ready_queue, new_spawned_coro_id,
                new_spawned_future_id, running, program, curr_coro_id, phase, entry,
                calls, last >>

\* a Memory of no bytes with a Program at pc 0, before any instruction
CpuIdle == [memory |-> MemoryNew(0), capacity |-> 0, pc |-> 0, overflow_checks |-> FALSE]

NoInstr == [instr |-> NoOp, cpu |-> CpuIdle, res |-> Ok(NoBytes), n |-> 0]

\* ConcordeIO::new(): no stream, over a disk with no file
IoIdle == [names |-> EmptyMap, data |-> EmptyMap, streams |-> EmptyMap,
           stdout |-> NoBytes, n |-> 0,
           last |-> [op |-> "new", id |-> 0, name |-> "", res |-> Ok(NoBytes),
                     names |-> EmptyMap, data |-> EmptyMap, streams |-> EmptyMap]]

Sched == Scheduler(coroutines, futures, ready_queue, new_spawned_coro_id,
                   new_spawned_future_id, running)

Commit(S) ==
    /\ coroutines' = S.coroutines
    /\ futures' = S.futures
    /\ ready_queue' = S.ready_queue
    /\ new_spawned_coro_id' = S.new_spawned_coro_id
    /\ new_spawned_future_id' = S.new_spawned_future_id
    /\ running' = S.running

Last(op, coro, fut, addr, n, value, res) ==
    [op |-> op, coro |-> coro, fut |-> fut, addr |-> addr, n |-> n,
     value |-> value, res |-> res]

SchedInit ==
    /\ coroutines = SchedulerNew.coroutines
    /\ futures = SchedulerNew.futures
    /\ ready_queue = SchedulerNew.ready_queue
    /\ new_spawned_coro_id = SchedulerNew.new_spawned_coro_id
    /\ new_spawned_future_id = SchedulerNew.new_spawned_future_id
    /\ running = SchedulerNew.running
    /\ program \in 1..Len(Programs)
    /\ curr_coro_id = 0
    /\ phase = "idle"
    /\ entry = "none"
    /\ calls = 0
    /\ last = Last("new", 0, 0, 0, 0, Ok(NoBytes), Ok(NoBytes))

Init ==
    /\ SchedInit
    /\ cpu = CpuIdle
    /\ ir = NoInstr
    /\ io = IoIdle

\* a call made on the scheduler by its owner, outside the run loop
Called(S, res, lst) ==
    /\ Commit(S)
    /\ calls' = calls + 1
    /\ phase' = IF res.tag = "Panic" THEN "panicked" ELSE "idle"
    /\ last' = lst
    /\ UNCHANGED << program, curr_coro_id, entry, cpu, ir, io >>

CanCall == phase = "idle" /\ calls < MaxCalls

\* ------------------------------------------------- calls from the outside
Call_spawn_coro ==
    /\ CanCall
    /\ new_spawned_coro_id < MaxCoros
    /\ Len(ready_queue) < MaxQueue
    /\ \E priority \in Priorities, args \in ArgsSet :
          LET r == spawn_coro(Sched, 0, priority, args)
          IN Called(r.S, r.res, Last("spawn_coro", r.S.new_spawned_coro_id, 0, 0, 0, Ok(args), r.res))

Call_await_future ==
    /\ CanCall
    /\ \E c \in CoroIds, f \in FutIds, w \in Addrs :
          LET r == await_future(Sched, c, f, w)
          IN Called(r.S, r.res, Last("await_future", c, f, w, 0, Ok(NoBytes), r.res))

Call_complete_future ==
    /\ CanCall
    /\ \E f \in FutIds, value \in ValueSet :
       \E order \in Orders(IF f \in DOMAIN futures THEN futures[f].dependants ELSE {}) :
          LET r == complete_future(Sched, f, value, order)
          IN /\ Len(r.S.ready_queue) <= MaxQueue
             /\ Called(r.S, r.res, Last("complete_future", 0, f, 0, 0, value, r.res))

Call_complete_future_for ==
    /\ CanCall
    /\ Len(ready_queue) < MaxQueue
    /\ \E f \in FutIds, c \in CoroIds :
          LET r == complete_future_for(Sched, f, c)
          IN Called(r.S, r.res, Last("complete_future_for", c, f, 0, 0, Ok(NoBytes), r.res))

Call_delete_future ==
    /\ CanCall
    /\ \E f \in FutIds :
          Called(delete_future(Sched, f), Ok(NoBytes),
                 Last("delete_future", 0, f, 0, 0, Ok(NoBytes), Ok(NoBytes)))

Call_get_next_runnable ==
    /\ CanCall
    /\ LET r == get_next_runnable(Sched)
       IN Called(r.S, Ok(r.id), Last("get_next_runnable", 0, 0, 0, 0, Ok(NoBytes), Ok(r.id)))

Call_yield_coroutine ==
    /\ CanCall
    /\ Len(ready_queue) < MaxQueue
    /\ \E c \in CoroIds :
          LET r == yield_coroutine(Sched, c)
          IN Called(r.S, r.res, Last("yield_coroutine", c, 0, 0, 0, Ok(NoBytes), r.res))

Call_finish_coroutine ==
    /\ CanCall
    /\ \E c \in CoroIds, result \in ValueSet :
       \E order \in Orders(IF c \in DOMAIN coroutines /\ coroutines[c].dependant # <<>>
                              /\ coroutines[c].dependant[1] \in DOMAIN futures
                           THEN futures[coroutines[c].dependant[1]].dependants ELSE {}) :
          LET r == finish_coroutine(Sched, c, result, order)
          IN /\ Len(r.S.ready_queue) <= MaxQueue
             /\ Called(r.S, r.res, Last("finish_coroutine", c, 0, 0, 0, result, r.res))

\* ------------------------------------------------------------ the run loop
Continue == [tag |-> "Continue", val |-> NoBytes, msg |-> ""]

\* Program::increment
increment(S, c) == [S EXCEPT !.coroutines[c].pc = @ + 1]

CurrInstr(S, c) == Programs[program][S.coroutines[c].pc + 1]

\* Scheduler::_run, up to the loop: pick the first coroutine
run_enter(S) ==
    LET g == get_next_runnable(S)
    IN IF g.id # <<>>
       THEN [S |-> [g.S EXCEPT !.running = TRUE], curr |-> g.id[1], res |-> Continue]
       ELSE [S |-> g.S, curr |-> curr_coro_id, res |-> Ok(<<-1>>)]

\* Instruction::NoOp: Interrupt::Ok, the pc moves on
on_NoOp(S, c) == [S |-> increment(S, c), curr |-> c, res |-> Continue]

\* a mutant of on_WriteBytesToSymbol: the coroutines share one linear memory
on_WriteBytesToSymbol_shared(S, c, addr, value) ==
    LET w  == MemoryWrite(S.coroutines[c].memory, addr, value)
        S1 == [S EXCEPT !.coroutines =
                  [d \in DOMAIN S.coroutines |->
                      [S.coroutines[d] EXCEPT !.memory =
                          IF Len(@) = Len(w.mem) THEN w.mem ELSE @]]]
    IN IF w.panic THEN [S |-> S1, curr |-> c, res |-> Panic(MsgIndex)]
       ELSE [S |-> increment(S1, c), curr |-> c, res |-> Continue]

\* Instruction::WriteBytesToSymbol(symbol, value): write_bytes_to_symbol
on_WriteBytesToSymbol(S, c, addr, value) ==
    LET w  == MemoryWrite(S.coroutines[c].memory, addr, value)
        S1 == [S EXCEPT !.coroutines[c].memory = w.mem]
    IN IF w.panic THEN [S |-> S1, curr |-> c, res |-> Panic(MsgIndex)]
       ELSE [S |-> increment(S1, c), curr |-> c, res |-> Continue]

\* Instruction::MemExtend(n): no arm of execute_instruction takes it, the
\* catch-all arm answers Err; the pc has moved on when run() passes the error up
on_MemExtend(S, c) == [S |-> increment(S, c), curr |-> c, res |-> Err(MsgUnimplemented)]

\* a mutant of on_DivMod: a zero divisor is reported after dest was written
on_DivMod_writes(S, c, a, b, dest, op) ==
    LET mem    == S.coroutines[c].memory
        a_data == read_typed_i64(mem, a)
        b_data == read_typed_i64(mem, b)
        zero   == b_data.val = Zeros(WordBytes)
        result == IF zero THEN Zeros(WordBytes)
                  ELSE IF op = "DivideSymbols" THEN i64_div(a_data.val, b_data.val)
                  ELSE i64_rem(a_data.val, b_data.val)
        w      == num_write_bytes_to(mem, dest, result)
        S1     == [S EXCEPT !.coroutines[c].memory = w.mem]
    IN IF a_data.panic \/ b_data.panic THEN [S |-> S, curr |-> c, res |-> Panic(MsgIndex)]
       ELSE IF ~zero /\ divrem_overflows(a_data.val, b_data.val)
       THEN [S |-> S, curr |-> c, res |-> Panic(MsgOverflow)]
       ELSE IF w.panic THEN [S |-> S1, curr |-> c, res |-> Panic(MsgIndex)]
       ELSE IF zero
       THEN [S |-> increment(S1, c), curr |-> c, res |-> Err(MsgDivisionByZero)]
       ELSE [S |-> increment(S1, c), curr |-> c, res |-> Continue]

\* divide_symbols / modulo_symbols: both operands are read as i64; a zero
\* divisor is answered with Err before anything is written; the pc has moved
\* on when the error is passed up
on_DivMod(S, c, a, b, dest, op) ==
    LET mem    == S.coroutines[c].memory
        a_data == read_typed_i64(mem, a)
        b_data == read_typed_i64(mem, b)
    IN IF a_data.panic \/ b_data.panic THEN [S |-> S, curr |-> c, res |-> Panic(MsgIndex)]
       ELSE IF b_data.val = Zeros(WordBytes)
       THEN [S |-> increment(S, c), curr |-> c, res |-> Err(MsgDivisionByZero)]
       ELSE IF divrem_overflows(a_data.val, b_data.val)
       THEN [S |-> S, curr |-> c, res |-> Panic(MsgOverflow)]
       ELSE LET result == IF op = "DivideSymbols" THEN i64_div(a_data.val, b_data.val)
                          ELSE i64_rem(a_data.val, b_data.val)
                w  == num_write_bytes_to(mem, dest, result)
                S1 == [S EXCEPT !.coroutines[c].memory = w.mem]
            IN IF w.panic THEN [S |-> S1, curr |-> c, res |-> Panic(MsgIndex)]
               ELSE [S |-> increment(S1, c), curr |-> c, res |-> Continue]

on_DivideSymbols(S, c, a, b, dest) == on_DivMod(S, c, a, b, dest, "DivideSymbols")

on_ModuloSymbols(S, c, a, b, dest) == on_DivMod(S, c, a, b, dest, "ModuloSymbols")

\* Instruction::DeleteFuture(id) and Interrupt::DeleteFuture(id)
on_DeleteFuture(S, c, future_id) ==
    [S |-> delete_future(increment(S, c), future_id), curr |-> c, res |-> Continue]

\* Instruction::Await(fut, addr) and Interrupt::Await(fut, addr)
on_Await(S, c, fut_id, return_write_addr) ==
    LET S1 == increment(S, c)
        a  == await_future(S1, c, fut_id, return_write_addr)
    IN IF a.res.tag # "Ok" THEN [S |-> a.S, curr |-> c, res |-> a.res]
       ELSE LET f == IF a.S.futures[fut_id].state = "Complete"
                     THEN complete_future_for(a.S, fut_id, c)
                     ELSE [S |-> a.S, res |-> Ok(NoBytes)]
            IN IF f.res.tag = "Panic" THEN [S |-> f.S, curr |-> c, res |-> f.res]
               ELSE LET g == get_next_runnable(f.S)
                    IN IF g.id # <<>>
                       THEN [S |-> increment(g.S, c), curr |-> g.id[1], res |-> Continue]
                       ELSE [S |-> [g.S EXCEPT !.running = FALSE], curr |-> c,
                             res |-> Continue]

\* a mutant of on_CreateCoroutine: the loop goes on with the spawned coroutine
on_CreateCoroutine_switch(S, c, dest, arg_addr, n_arg_bytes, write_coro_fut_id_addr) ==
    LET S1   == increment(S, c)
        args == MemoryRead(S1.coroutines[c].memory, arg_addr, n_arg_bytes)
    IN IF args.panic THEN [S |-> S1, curr |-> c, res |-> Panic(MsgIndex)]
       ELSE LET sp == spawn_coro(S1, dest, 0, args.bytes)
                w  == num_write_bytes_to(sp.S.coroutines[c].memory, write_coro_fut_id_addr,
                                         usize_to_bytes(sp.res.val[1]))
                S2 == [sp.S EXCEPT !.coroutines[c].memory = w.mem]
            IN IF w.panic THEN [S |-> S2, curr |-> c, res |-> Panic(MsgIndex)]
               ELSE [S |-> increment(S2, c), curr |-> sp.S.new_spawned_coro_id,
                     res |-> Continue]

\* Instruction::CreateCoroutine and Interrupt::CreateCoroutine
on_CreateCoroutine(S, c, dest, arg_addr, n_arg_bytes, write_coro_fut_id_addr) ==
    LET S1   == increment(S, c)
        args == MemoryRead(S1.coroutines[c].memory, arg_addr, n_arg_bytes)
    IN IF args.panic THEN [S |-> S1, curr |-> c, res |-> Panic(MsgIndex)]
       ELSE LET sp == spawn_coro(S1, dest, 0, args.bytes)
                w  == num_write_bytes_to(sp.S.coroutines[c].memory, write_coro_fut_id_addr,
                                         usize_to_bytes(sp.res.val[1]))
                S2 == [sp.S EXCEPT !.coroutines[c].memory = w.mem]
            IN IF w.panic THEN [S |-> S2, curr |-> c, res |-> Panic(MsgIndex)]
               ELSE [S |-> increment(S2, c), curr |-> c, res |-> Continue]

\* Instruction::Return(addr, n) and Interrupt::Ret(addr, n)
on_Ret(S, c, ret_val_addr, n_ret_bytes, order) ==
    LET S1 == increment(S, c)
        co == S1.coroutines[c]
        rv == MemoryRead(co.memory, ret_val_addr, n_ret_bytes)
    IN IF rv.panic THEN [S |-> S1, curr |-> c, res |-> Panic(MsgIndex)]
       ELSE IF co.dependant = <<>> \/ co.dependant[1] \notin DOMAIN S1.futures
       THEN [S |-> S1, curr |-> c, res |-> Continue]
       ELSE IF S1.futures[co.dependant[1]].dependants # {}
       THEN LET r == complete_future(S1, co.dependant[1], Ok(rv.bytes), order)
            IN IF r.res.tag # "Ok" THEN [S |-> r.S, curr |-> c, res |-> r.res]
               ELSE [S |-> [r.S EXCEPT !.coroutines = MapDel(@, c)], curr |-> c,
                     res |-> Continue]
       ELSE LET b == MemoryRead(co.memory, ret_val_addr, 1)
            IN IF b.panic THEN [S |-> S1, curr |-> c, res |-> Panic(MsgIndex)]
               ELSE [S |-> S1, curr |-> c, res |-> Ok(<<I8(b.bytes[1])>>)]

\* what the entry point hands to its caller: run() drops the i8 of _run
Returned(e, res) == IF e = "run" /\ res.tag = "Ok" THEN Ok(NoBytes) ELSE res

Stepped(r, op, fut, addr, n, value) ==
    /\ Commit(r.S)
    /\ curr_coro_id' = r.curr
    /\ phase' = CASE r.res.tag = "Continue" -> "running"
                  [] r.res.tag = "Panic" -> "panicked"
                  [] OTHER -> "idle"
    /\ last' = Last(op, curr_coro_id, fut, addr, n, value, Returned(entry, r.res))
    /\ UNCHANGED << program, entry, calls, cpu, ir, io >>

\* _run() called on a scheduler that was filled through spawn_coro
Call_run_loop ==
    /\ CanCall
    /\ LET r == run_enter(Sched)
       IN /\ Commit(r.S)
          /\ curr_coro_id' = r.curr
          /\ phase' = IF r.res.tag = "Continue" THEN "running" ELSE "idle"
          /\ entry' = "_run"
          /\ calls' = calls + 1
          /\ last' = Last("_run", r.curr, 0, 0, 0, Ok(NoBytes), r.res)
          /\ UNCHANGED << program, cpu, ir, io >>

\* run(program): spawn the root with no arguments, then _run()
Call_run ==
    /\ CanCall
    /\ new_spawned_coro_id < MaxCoros
    /\ LET sp == spawn_coro(Sched, 0, 0, <<>>)
           r  == run_enter(sp.S)
       IN /\ Commit(r.S)
          /\ curr_coro_id' = r.curr
          /\ phase' = IF r.res.tag = "Continue" THEN "running" ELSE "idle"
          /\ entry' = "run"
          /\ calls' = calls + 1
          /\ last' = Last("run", r.curr, 0, 0, 0, Ok(NoBytes), Returned("run", r.res))
          /\ UNCHANGED << program, cpu, ir, io >>

InLoop == phase = "running"

\* a mutant of eof: the comparison the other way round
eof_flipped(pc, len) == len >= pc

\* the end of the code: instruction_vec.len() <= index
eof(pc, len) == len <= pc

AtInstr ==
    /\ InLoop /\ running /\ curr_coro_id \in DOMAIN coroutines
    /\ ~eof(coroutines[curr_coro_id].pc, Len(Programs[program]))
OpIs(op) == AtInstr /\ CurrInstr(Sched, curr_coro_id).op = op
I == CurrInstr(Sched, curr_coro_id)

\* if !self.running { panic!(..) }
Loop_NoCoroToRun ==
    /\ InLoop /\ ~running
    /\ Stepped([S |-> Sched, curr |-> curr_coro_id, res |-> Panic(MsgNoCoroToRun)],
               "loop", 0, 0, 0, Ok(NoBytes))

\* self.coroutines.get_mut(&curr_coro_id) is None: panic!("Current coroutine not found")
Loop_CurrNotFound ==
    /\ InLoop /\ running /\ curr_coro_id \notin DOMAIN coroutines
    /\ Stepped([S |-> Sched, curr |-> curr_coro_id, res |-> Panic(MsgCurrNotFound)],
               "loop", 0, 0, 0, Ok(NoBytes))

\* the pc is past the last instruction: Interrupt::EOF => return Ok(0)
Step_EOF ==
    /\ InLoop /\ running /\ curr_coro_id \in DOMAIN coroutines
    /\ eof(coroutines[curr_coro_id].pc, Len(Programs[program]))
    /\ Stepped([S |-> Sched, curr |-> curr_coro_id, res |-> Ok(<<0>>)], "EOF", 0, 0, 0, Ok(NoBytes))

Step_NoOp ==
    /\ OpIs("NoOp")
    /\ Stepped(on_NoOp(Sched, curr_coro_id), "NoOp", 0, 0, 0, Ok(NoBytes))

Step_WriteBytesToSymbol ==
    /\ OpIs("WriteBytesToSymbol")
    /\ Stepped(on_WriteBytesToSymbol(Sched, curr_coro_id, I.a, I.bytes),
               "WriteBytesToSymbol", 0, I.a, 0, Ok(I.bytes))

Step_MemExtend ==
    /\ OpIs("MemExtend")
    /\ Stepped(on_MemExtend(Sched, curr_coro_id), "MemExtend", 0, 0, I.a, Ok(NoBytes))

Step_DivideSymbols ==
    /\ OpIs("DivideSymbols")
    /\ Stepped(on_DivideSymbols(Sched, curr_coro_id, I.a, I.b, I.c),
               "DivideSymbols", 0, I.c, 0, Ok(NoBytes))

Step_ModuloSymbols ==
    /\ OpIs("ModuloSymbols")
    /\ Stepped(on_ModuloSymbols(Sched, curr_coro_id, I.a, I.b, I.c),
               "ModuloSymbols", 0, I.c, 0, Ok(NoBytes))

Step_DeleteFuture ==
    /\ OpIs("DeleteFuture")
    /\ Stepped(on_DeleteFuture(Sched, curr_coro_id, I.a), "DeleteFuture", I.a, 0, 0, Ok(NoBytes))

Step_Await ==
    /\ OpIs("Await")
    /\ Stepped(on_Await(Sched, curr_coro_id, I.a, I.b), "Await", I.a, I.b, 0, Ok(NoBytes))

Step_CreateCoroutine ==
    /\ OpIs("CreateCoroutine")
    /\ new_spawned_coro_id < MaxCoros
    /\ Stepped(on_CreateCoroutine(Sched, curr_coro_id, I.a, I.b, I.c, I.d),
               "CreateCoroutine", 0, I.d, I.c, Ok(NoBytes))

Step_Ret ==
    /\ OpIs("Return")
    /\ LET co == coroutines[curr_coro_id]
           ds == IF co.dependant # <<>> /\ co.dependant[1] \in DOMAIN futures
                 THEN futures[co.dependant[1]].dependants ELSE {}
       IN \E order \in Orders(ds) :
             Stepped(on_Ret(Sched, curr_coro_id, I.a, I.b, order), "Ret",
                     IF co.dependant # <<>> THEN co.dependant[1] ELSE 0, I.a, I.b,
                     Ok(MemoryRead(co.memory, I.a, I.b).bytes))

Next ==
    \/ Call_spawn_coro
    \/ Call_await_future
    \/ Call_complete_future
    \/ Call_complete_future_for
    \/ Call_delete_future
    \/ Call_get_next_runnable
    \/ Call_yield_coroutine
    \/ Call_finish_coroutine
    \/ Call_run_loop
    \/ Call_run
    \/ Loop_NoCoroToRun
    \/ Loop_CurrNotFound
    \/ Step_EOF
    \/ Step_NoOp
    \/ Step_WriteBytesToSymbol
    \/ Step_MemExtend
    \/ Step_DivideSymbols
    \/ Step_ModuloSymbols
    \/ Step_DeleteFuture
    \/ Step_Await
    \/ Step_CreateCoroutine
    \/ Step_Ret

Spec == Init /\ [][Next]_vars

\* ================================================================ claims

\* C1 (as claimed): complete_future(f, v) on a Waiting future delivers v to
\* every coroutine that awaited f at a write address w with [w, w + len(v))
\* inside its memory, for every such w: the call succeeds, the bytes at
\* [w, w + len(v)) equal v and the waiter is Runnable.
C1_AwaitDelivery ==
    [][\A f \in FutIds, c \in CoroIds :
          ( /\ last'.op = "complete_future" /\ last'.fut = f /\ last'.value.tag = "Ok"
            /\ f \in DOMAIN futures /\ futures[f].state = "Waiting"
            /\ c \in DOMAIN coroutines /\ c \in futures[f].dependants
            /\ f \in DOMAIN coroutines[c].depends_on
            /\ coroutines[c].depends_on[f] + Len(last'.value.val)
                  <= Len(coroutines[c].memory) )
          => LET w == coroutines[c].depends_on[f]
                 v == last'.value.val
             IN /\ last'.res.tag = "Ok"
                /\ coroutines'[c].state = "Runnable"
                /\ SubSeq(coroutines'[c].memory, w + 1, w + Len(v)) = v
      ]_vars

\* C2 (as claimed): in every state of a live scheduler a Runnable coroutine
\* awaits nothing.
C2_RunnableAwaitsNothing ==
    phase # "panicked" =>
        \A c \in DOMAIN coroutines :
            coroutines[c].state = "Runnable" => DOMAIN coroutines[c].depends_on = {}

\* C3 (as claimed): in every state of a live scheduler a Suspended coroutine
\* awaits at least one future, and is a dependant of every future it awaits.
C3_SuspendedIsDependant ==
    phase # "panicked" =>
        \A c \in DOMAIN coroutines :
            coroutines[c].state = "Suspended" =>
                /\ DOMAIN coroutines[c].depends_on # {}
                /\ \A f \in DOMAIN coroutines[c].depends_on :
                      f \in DOMAIN futures /\ c \in futures[f].dependants

\* C4: a future is single-assignment.  It is created Waiting without a value;
\* it holds a value exactly when it is Complete; once Complete it stays
\* Complete with the same value; complete_future on a future that is not
\* Waiting fails (the DoubleComplete panic) and leaves the futures, the
\* coroutines and the ready queue as they were.
C4_SingleAssignment ==
    /\ [](\A f \in DOMAIN futures :
             (futures[f].value # <<>>) <=> (futures[f].state = "Complete"))
    /\ [][\A f \in 1..MaxCoros :
            /\ (f \notin DOMAIN futures /\ f \in DOMAIN futures')
                  => (futures'[f].state = "Waiting" /\ futures'[f].value = <<>>)
            /\ (f \in DOMAIN futures /\ f \in DOMAIN futures'
                  /\ futures[f].state = "Complete")
                  => (futures'[f].state = "Complete"
                        /\ futures'[f].value = futures[f].value)
            /\ (last'.op = "complete_future" /\ last'.fut = f /\ calls' = calls + 1
                  /\ f \in DOMAIN futures /\ futures[f].state # "Waiting")
                  => ( /\ last'.res = Panic(MsgDoubleComplete)
                       /\ futures' = futures
                       /\ coroutines' = coroutines
                       /\ ready_queue' = ready_queue )
         ]_vars

\* C4 witness: a second complete_future on a Complete future has just failed
C4_Witness ==
    /\ last.op = "complete_future"
    /\ last.res = Panic(MsgDoubleComplete)
    /\ last.fut \in DOMAIN futures
    /\ futures[last.fut].state = "Complete"
    /\ futures[last.fut].value # <<>>

\* C5 (as claimed): the spawn/await program (parent: CreateCoroutine, Await on
\* the child's future, Ret; child: Ret with a payload) terminates without a
\* panic and with Ok.  run(program) gives the root no memory, so the root is
\* given its memory as arguments: spawn_coro(program, 0, args) with 10 bytes
\* of arguments, then _run().
C5_SpawnAwaitTerminates ==
    ( /\ Programs[program] \in {ProgSpawnAwait, ProgPadded}
      /\ entry = "_run" /\ calls = 2 /\ new_spawned_coro_id >= 1
      /\ (1 \in DOMAIN coroutines => Len(coroutines[1].memory) = 10) )
        => /\ phase # "panicked"
           /\ (phase = "idle" => last.res.tag = "Ok")

\* C6 (as claimed): the root coroutine (id 1) is retained, not dropped, on its
\* Ret: after the root has executed Return it is still in the coroutine table.
C6_RootRetained ==
    (entry = "run" /\ calls = 1 /\ last.op = "Ret" /\ last.coro = 1
        /\ last.res.tag # "Panic")
        => 1 \in DOMAIN coroutines

\* C7 (as claimed): when the root coroutine executes Ret(addr, n) the entry
\* point returns Ok with exactly the n bytes of the root's memory at
\* [addr, addr + n).
C7_RootPayloadReturned ==
    (entry \in {"run", "_run"} /\ last.op = "Ret" /\ last.coro = 1
        /\ last.res.tag # "Panic")
        => (phase = "idle" /\ last.res = Ok(last.value.val))

\* C8: the ready queue is FIFO.  get_next_runnable (called directly, or on
\* entry to _run) returns the first entry of the queue that names a Runnable
\* coroutine of the table, whatever the priorities, and drops the entries up
\* to it (all of them when there is none); spawn_coro, complete_future,
\* complete_future_for, finish_coroutine and yield_coroutine only append.
C8_ReadyQueueFifo ==
    [][ /\ (last'.op \in {"get_next_runnable", "_run"} /\ calls' = calls + 1)
           => LET cand == {i \in 1..Len(ready_queue) :
                              /\ ready_queue[i] \in DOMAIN coroutines
                              /\ coroutines[ready_queue[i]].state = "Runnable"}
                  first == CHOOSE i \in cand : \A j \in cand : i <= j
                  got == IF last'.op = "_run"
                         THEN (IF phase' = "running" THEN <<curr_coro_id'>> ELSE <<>>)
                         ELSE last'.res.val
              IN IF cand = {}
                 THEN got = <<>> /\ ready_queue' = <<>>
                 ELSE /\ got = <<ready_queue[first]>>
                      /\ ready_queue' = SubSeq(ready_queue, first + 1, Len(ready_queue))
        /\ (last'.op \in {"spawn_coro", "complete_future", "complete_future_for",
                          "finish_coroutine", "yield_coroutine"} /\ calls' = calls + 1)
           => /\ Len(ready_queue') >= Len(ready_queue)
              /\ SubSeq(ready_queue', 1, Len(ready_queue)) = ready_queue
      ]_vars

\* C8 witness: get_next_runnable has returned a coroutine while a Runnable
\* coroutine of higher priority, pushed later, is still queued
C8_Witness ==
    /\ last.op = "get_next_runnable"
    /\ last.res.val # <<>>
    /\ last.res.val[1] \in DOMAIN coroutines
    /\ \E i \in 1..Len(ready_queue) :
          /\ ready_queue[i] \in DOMAIN coroutines
          /\ coroutines[ready_queue[i]].state = "Runnable"
          /\ coroutines[ready_queue[i]].priority > coroutines[last.res.val[1]].priority

\* C9 (as claimed): the run loop never returns success from a deadlock, that
\* is with no Runnable coroutine in the ready queue while some coroutine is
\* Suspended on a Waiting future.
C9_DeadlockNeverSuccess ==
    (phase = "idle" /\ entry \in {"run", "_run"} /\ last.res.tag = "Ok"
        /\ last.op \in {"run", "_run", "EOF", "Ret"})
        => ~ ( /\ \A i \in 1..Len(ready_queue) :
                     ~ ( ready_queue[i] \in DOMAIN coroutines
                         /\ coroutines[ready_queue[i]].state = "Runnable" )
               /\ \E c \in DOMAIN coroutines :
                     /\ coroutines[c].state = "Suspended"
                     /\ \E f \in DOMAIN coroutines[c].depends_on :
                           f \in DOMAIN futures /\ futures[f].state = "Waiting" )

C11_FaultCompletesFuture ==
    [][\A c \in CoroIds, f \in FutIds, w \in CoroIds :
          ( /\ last'.op \in {"MemExtend", "DivideSymbols", "ModuloSymbols"}
            /\ last'.res.tag = "Err"
            /\ last'.coro = c /\ c \in DOMAIN coroutines
            /\ coroutines[c].dependant = <<f>> /\ f \in DOMAIN futures
            /\ w # c /\ w \in futures[f].dependants /\ w \in DOMAIN coroutines
            /\ coroutines[w].state = "Suspended" /\ f \in DOMAIN coroutines[w].depends_on )
          => /\ (c \in DOMAIN coroutines' => coroutines'[c].state = "Finished")
             /\ futures'[f].state # "Waiting"
             /\ coroutines'[w].state # "Suspended"
      ]_vars

\* C12: DivideSymbols or ModuloSymbols whose operands can be read and whose
\* divisor operand (the 8 bytes at b) is 0 fails with the division-by-zero
\* error; no byte of any coroutine's memory has changed; the error ends the
\* run loop and is what the entry point (_run, and run through it) returns.
C12_DivisionByZero ==
    [][ ( /\ last'.op \in {"DivideSymbols", "ModuloSymbols"}
          /\ AtInstr
          /\ I.a + WordBytes <= Len(coroutines[curr_coro_id].memory)
          /\ I.b + WordBytes <= Len(coroutines[curr_coro_id].memory)
          /\ \A i \in 1..WordBytes : coroutines[curr_coro_id].memory[I.b + i] = 0 )
        => /\ last'.res = Err(MsgDivisionByZero)
           /\ phase' = "idle"
           /\ DOMAIN coroutines' = DOMAIN coroutines
           /\ \A c \in DOMAIN coroutines : coroutines'[c].memory = coroutines[c].memory
      ]_vars

\* C12 witness: the second division of a program has just failed on a zero
\* divisor, after the first one had written its quotient or remainder
C12_Witness ==
    /\ last.op \in {"DivideSymbols", "ModuloSymbols"}
    /\ last.res = Err(MsgDivisionByZero)
    /\ phase = "idle"
    /\ last.coro \in DOMAIN coroutines
    /\ coroutines[last.coro].pc = 2
    /\ coroutines[last.coro].memory \in { <<0, 1, 0, 0, 0, 0, 0, 0, 0, 0>>,
                                          <<1, 0, 0, 0, 0, 0, 0, 0, 0, 0>> }

C14_SpawnCoro ==
    [][ (last'.op = "spawn_coro" /\ calls' = calls + 1)
        => LET c == last'.coro
               f == last'.res.val[1]
           IN /\ c \in DOMAIN coroutines' /\ f \in DOMAIN futures'
              /\ coroutines'[c].state = "Runnable"
              /\ DOMAIN coroutines'[c].depends_on = {}
              /\ ready_queue' = Append(ready_queue, c)
              /\ futures'[f].state = "Waiting"
              /\ futures'[f].dependants = {}
              /\ coroutines'[c].dependant = <<f>>
      ]_vars

\* C15: argument passing.  The coroutine created by spawn_coro(program,
\* priority, args) has a memory of exactly len(args) bytes that equals args,
\* and its pc is the entry pc of the program (0).  The coroutine created by
\* the interrupt CreateCoroutine(dest, arg_addr, n_arg_bytes, _) has a memory
\* of n_arg_bytes bytes that equals the parent's bytes at
\* [arg_addr, arg_addr + n_arg_bytes) as they were, and its pc is dest.
C15_ArgumentPassing ==
    [][ /\ (last'.op = "spawn_coro" /\ calls' = calls + 1)
           => /\ last'.coro \in DOMAIN coroutines'
              /\ coroutines'[last'.coro].memory = last'.value.val
              /\ coroutines'[last'.coro].pc = 0
        /\ (last'.op = "CreateCoroutine"
              /\ new_spawned_coro_id' = new_spawned_coro_id + 1)
           => LET child  == new_spawned_coro_id'
                  parent == coroutines[curr_coro_id].memory
              IN /\ child \in DOMAIN coroutines'
                 /\ Len(coroutines'[child].memory) = I.c
                 /\ coroutines'[child].memory = SubSeq(parent, I.b + 1, I.b + I.c)
                 /\ coroutines'[child].pc = I.a
      ]_vars

\* C15 witness: CreateCoroutine(3, 0, 1, 1) has been handled; the child holds
\* the parent's first byte and starts at pc 3, and a coroutine spawned with
\* ten bytes of arguments holds them
C15_Witness ==
    /\ last.op = "CreateCoroutine"
    /\ last.res.tag = "Continue"
    /\ DOMAIN coroutines = {1, 2}
    /\ coroutines[2].memory = <<1>>
    /\ coroutines[2].pc = 3
    /\ Len(coroutines[1].memory) = 10

\* C16 (as claimed): when the running coroutine c executes Ret(addr, n), its
\* result future f is Waiting and has a dependant other than c, and the n
\* bytes at addr can be read, then f becomes Complete with exactly those
\* bytes, every waiter holds them at its recorded write address, c is removed
\* from the coroutine table, and the run loop goes on with a coroutine of the
\* table, not with the removed one.
C16_RetCompletesAndContinues ==
    [][\A c \in CoroIds, f \in FutIds :
          ( /\ last'.op = "Ret" /\ AtInstr /\ curr_coro_id = c
            /\ coroutines[c].dependant = <<f>> /\ f \in DOMAIN futures
            /\ futures[f].state = "Waiting"
            /\ futures[f].dependants \ {c} # {}
            /\ I.a + I.b <= Len(coroutines[c].memory) )
          => LET v == SubSeq(coroutines[c].memory, I.a + 1, I.a + I.b)
             IN /\ last'.res.tag \notin {"Panic", "Err"}
                /\ futures'[f].state = "Complete"
                /\ futures'[f].value = <<v>>
                /\ c \notin DOMAIN coroutines'
                /\ \A w \in futures[f].dependants \ {c} :
                      ( /\ w \in DOMAIN coroutines
                        /\ f \in DOMAIN coroutines[w].depends_on
                        /\ coroutines[w].depends_on[f] + Len(v) <= Len(coroutines[w].memory) )
                      => SubSeq(coroutines'[w].memory, coroutines[w].depends_on[f] + 1,
                                coroutines[w].depends_on[f] + Len(v)) = v
                /\ (phase' = "running" => curr_coro_id' \in DOMAIN coroutines')
      ]_vars

\* C17 (as claimed): after finish_coroutine(c, Ok(v)) has returned Ok, the
\* coroutine c is Finished or dropped: it is not Runnable, so that
\* get_next_runnable cannot return it and it cannot execute again.
C17_FinishedStaysFinished ==
    [][\A c \in CoroIds :
          ( /\ last'.op = "finish_coroutine" /\ calls' = calls + 1
            /\ last'.coro = c /\ c \in DOMAIN coroutines
            /\ last'.value.tag = "Ok" /\ last'.res.tag = "Ok" )
          => /\ (c \in DOMAIN coroutines' => coroutines'[c].state = "Finished")
             /\ (c \in DOMAIN coroutines' => get_next_runnable(
                    [Sched EXCEPT !.coroutines = coroutines',
                                  !.ready_queue = ready_queue']).id # <<c>>)
      ]_vars

\* C18 (as claimed): in every reachable state, also after delete_future and
\* after the DeleteFuture instruction, every future id that is a key of some
\* coroutine's depends_on is a key of the future table.
C18_DependsOnInTable ==
    \A c \in DOMAIN coroutines :
        DOMAIN coroutines[c].depends_on \subseteq DOMAIN futures

\* C19 (as claimed): scheduling is determined by the operations applied.  When
\* complete_future (called directly, through finish_coroutine, or by the Ret
\* handler) wakes the dependants of a future and succeeds, the ready queue
\* that results is the same for every order in which the set of dependants
\* can be iterated.
C19_WakeOrderFixed ==
    [][ /\ (last'.op = "complete_future" /\ calls' = calls + 1
              /\ last'.res.tag = "Ok"
              /\ last'.fut \in DOMAIN futures)
           => \A order \in Orders(futures[last'.fut].dependants) :
                 complete_future(Sched, last'.fut, last'.value, order).S.ready_queue
                    = ready_queue'
        /\ (last'.op = "finish_coroutine" /\ calls' = calls + 1
              /\ last'.res.tag = "Ok"
              /\ last'.coro \in DOMAIN coroutines
              /\ coroutines[last'.coro].dependant # <<>>
              /\ coroutines[last'.coro].dependant[1] \in DOMAIN futures)
           => \A order \in Orders(futures[coroutines[last'.coro].dependant[1]].dependants) :
                 finish_coroutine(Sched, last'.coro, last'.value, order).S.ready_queue
                    = ready_queue'
        /\ (last'.op = "Ret" /\ AtInstr
              /\ last'.res.tag # "Panic"
              /\ coroutines[curr_coro_id].dependant # <<>>
              /\ coroutines[curr_coro_id].dependant[1] \in DOMAIN futures)
           => \A order \in Orders(futures[coroutines[curr_coro_id].dependant[1]].dependants) :
                 on_Ret(Sched, curr_coro_id, I.a, I.b, order).S.ready_queue = ready_queue'
      ]_vars

\* C20: no cross-coroutine memory interference.  In every step the memory of
\* a coroutine d keeps its size, and it changes only (a) when d itself is the
\* running coroutine and executes an instruction that writes (a write, a
\* division, CreateCoroutine storing the future id), or (b) when a value v of
\* a future that d awaits is delivered (complete_future, also through
\* finish_coroutine and Ret, or complete_future_for, also through Await), and
\* then only inside [w, w + len(v)) for d's recorded write address w.  A
\* coroutine that enters the table leaves every other memory as it was.
C20_MemoryIsolation ==
    [][\A d \in (DOMAIN coroutines) \cap (DOMAIN coroutines') :
          LET m    == coroutines[d].memory
              m2   == coroutines'[d].memory
              diff == {i \in 1..Len(m) : m[i] # m2[i]}
              own  == coroutines[d].dependant
          IN /\ Len(m2) = Len(m)
             /\ diff # {}
                  => \/ /\ phase = "running" /\ d = curr_coro_id
                        /\ last'.op \in {"WriteBytesToSymbol", "DivideSymbols",
                                          "ModuloSymbols", "CreateCoroutine"}
                     \/ /\ phase = "running" /\ d = curr_coro_id
                        /\ last'.op = "Await"
                        /\ I.a \in DOMAIN futures /\ futures[I.a].state = "Complete"
                        /\ diff \subseteq (I.b + 1)..(I.b + Len(futures[I.a].value[1]))
                     \/ /\ last'.op \in {"complete_future", "Ret"}
                        /\ last'.fut \in DOMAIN coroutines[d].depends_on
                        /\ diff \subseteq (coroutines[d].depends_on[last'.fut] + 1)
                                           ..(coroutines[d].depends_on[last'.fut]
                                                + Len(last'.value.val))
                     \/ /\ last'.op = "finish_coroutine"
                        /\ last'.coro \in DOMAIN coroutines
                        /\ coroutines[last'.coro].dependant # <<>>
                        /\ coroutines[last'.coro].dependant[1]
                              \in DOMAIN coroutines[d].depends_on
                        /\ LET w == coroutines[d].depends_on[coroutines[last'.coro].dependant[1]]
                           IN diff \subseteq (w + 1)..(w + Len(last'.value.val))
                     \/ /\ last'.op = "complete_future_for"
                        /\ d = last'.coro
                        /\ last'.fut \in DOMAIN coroutines[d].depends_on
                        /\ last'.fut \in DOMAIN futures
                        /\ futures[last'.fut].value # <<>>
                        /\ diff \subseteq (coroutines[d].depends_on[last'.fut] + 1)
                                           ..(coroutines[d].depends_on[last'.fut]
                                                + Len(futures[last'.fut].value[1]))
      ]_vars

\* C20 witness: with two coroutines in the table, coroutine 1 has executed
\* WriteBytesToSymbol(0, [3]); its memory holds the byte and the other
\* coroutine's memory, of the same size, still holds its arguments
C20_Witness ==
    /\ last.op = "WriteBytesToSymbol"
    /\ last.res.tag = "Continue"
    /\ DOMAIN coroutines = {1, 2}
    /\ last.coro = 1
    /\ coroutines[1].memory = <<3, 2, 0, 0, 0, 0, 0, 0, 0, 0>>
    /\ coroutines[2].memory = <<1, 2, 0, 0, 0, 0, 0, 0, 0, 0>>

\* ======================================================================
\* execute_instruction on one Memory and one Program
\* ======================================================================
MaxExec == 1     \* instructions executed in one behaviour

\* the other variants of concordeisa Instruction that execute_instruction names
WriteStringToSymbol(addr, s)  == Instr("WriteStringToSymbol", addr, 0, 0, 0, s)
WriteIntToSymbol(addr, v)     == Instr("WriteIntToSymbol", addr, 0, 0, 0, v)
WriteBoolToSymbol(addr, v)    == Instr("WriteBoolToSymbol", addr, IF v THEN 1 ELSE 0, 0, 0, <<>>)
MemCpy(source, dest, n)       == Instr("MemCpy", source, dest, n, 0, <<>>)
AddSymbols(a, b, dest)        == Instr("AddSymbols", a, b, dest, 0, <<>>)
SubtractSymbols(a, b, dest)   == Instr("SubtractSymbols", a, b, dest, 0, <<>>)
MultiplySymbols(a, b, dest)   == Instr("MultiplySymbols", a, b, dest, 0, <<>>)
MinSymbols(a, b, dest)        == Instr("MinSymbols", a, b, dest, 0, <<>>)
MaxSymbols(a, b, dest)        == Instr("MaxSymbols", a, b, dest, 0, <<>>)
FmaSymbols(a, b, c, dest)     == Instr("FmaSymbols", a, b, c, dest, <<>>)
CompareEqual(a, b, dest)      == Instr("CompareEqual", a, b, dest, 0, <<>>)
CompareGreater(a, b, dest)    == Instr("CompareGreater", a, b, dest, 0, <<>>)
CompareLesser(a, b, dest)     == Instr("CompareLesser", a, b, dest, 0, <<>>)
Jump(target)                  == Instr("Jump", target, 0, 0, 0, <<>>)
JumpIfTrue(target, condition) == Instr("JumpIfTrue", target, condition, 0, 0, <<>>)

\* enum Interrupt: the Ok(..) results of execute_instruction
Interrupt(kind, args) == [tag |-> "Ok", val |-> args, msg |-> kind]
InterruptOk == Interrupt("Ok", <<>>)

\* Program::increment and Program::jump on the Program of the CPU
program_increment(c) == [c EXCEPT !.pc = @ + 1]
program_jump(c, target) == [c EXCEPT !.pc = target]

\* a panic inside the instruction: the state is as the unwinding found it
Faulted(c, m) == [cpu |-> c, res |-> Panic(m)]

\* memory.write(..) followed by return Ok(Interrupt::Ok); an index past the
\* end of the Vec panics after the bytes before it were stored
Wrote(c, w) ==
    [cpu |-> [c EXCEPT !.memory = w.mem],
     res |-> IF w.panic THEN Panic(MsgIndex) ELSE InterruptOk]

write_string_to_symbol(c, address, value) ==
    Wrote(c, string_write_bytes_to(c.memory, address, value))

write_int_to_symbol(c, address, value) ==
    Wrote(c, num_write_bytes_to(c.memory, address, value))

write_bool_to_symbol(c, symbol, value) ==
    Wrote(c, bool_write_bytes_to(c.memory, symbol, value))

write_bytes_to_symbol(c, symbol, value) ==
    Wrote(c, vec_write_bytes_to(c.memory, symbol, value))

\* copy_symbol: memory.memcpy(source, dest, n)?
copy_symbol(c, source, dest, n) ==
    LET r == memcpy(c.memory, c.capacity, source, dest, n)
    IN [cpu |-> [c EXCEPT !.memory = r.mem],
        res |-> IF r.res.tag = "Ok" THEN InterruptOk ELSE r.res]

\* the operators + - * of i64: a build with overflow checks panics on
\* overflow, a build without them wraps
Never(x, y) == FALSE

Binary(c, a, b, dest, Op(_, _), Overflows(_, _)) ==
    LET a_data == read_typed_i64(c.memory, a)
        b_data == read_typed_i64(c.memory, b)
    IN IF a_data.panic \/ b_data.panic THEN Faulted(c, MsgIndex)
       ELSE IF c.overflow_checks /\ Overflows(a_data.val, b_data.val)
       THEN Faulted(c, MsgOverflow)
       ELSE write_int_to_symbol(c, dest, Op(a_data.val, b_data.val))

add_symbols(c, a, b, dest) == Binary(c, a, b, dest, wrapping_add, add_overflows)

subtract_symbols(c, a, b, dest) == Binary(c, a, b, dest, wrapping_sub, sub_overflows)

multiply_symbols(c, a, b, dest) == Binary(c, a, b, dest, wrapping_mul, mul_overflows)

\* divide_symbols and modulo_symbols: Err on a zero divisor, before any write
DivRem(c, a, b, dest, Op(_, _)) ==
    LET a_data == read_typed_i64(c.memory, a)
        b_data == read_typed_i64(c.memory, b)
    IN IF a_data.panic \/ b_data.panic THEN Faulted(c, MsgIndex)
       ELSE IF b_data.val = Zeros(WordBytes) THEN [cpu |-> c, res |-> Err(MsgDivisionByZero)]
       ELSE IF divrem_overflows(a_data.val, b_data.val) THEN Faulted(c, MsgOverflow)
       ELSE write_int_to_symbol(c, dest, Op(a_data.val, b_data.val))

divide_symbols(c, a, b, dest) == DivRem(c, a, b, dest, i64_div)

modulo_symbols(c, a, b, dest) == DivRem(c, a, b, dest, i64_rem)

\* std::cmp::min and std::cmp::max of i64
i64_min(x, y) == IF i64_lt(y, x) THEN y ELSE x
i64_max(x, y) == IF i64_lt(y, x) THEN x ELSE y

min_symbols(c, a, b, dest) == Binary(c, a, b, dest, i64_min, Never)

max_symbols(c, a, b, dest) == Binary(c, a, b, dest, i64_max, Never)

\* fma_symbols: a_data * b_data + c_data
fma_symbols(c, a, b, cc, dest) ==
    LET a_data == read_typed_i64(c.memory, a)
        b_data == read_typed_i64(c.memory, b)
        c_data == read_typed_i64(c.memory, cc)
        prod   == wrapping_mul(a_data.val, b_data.val)
    IN IF a_data.panic \/ b_data.panic \/ c_data.panic THEN Faulted(c, MsgIndex)
       ELSE IF /\ c.overflow_checks
               /\ \/ mul_overflows(a_data.val, b_data.val)
                  \/ add_overflows(prod, c_data.val)
       THEN Faulted(c, MsgOverflow)
       ELSE write_int_to_symbol(c, dest, wrapping_add(prod, c_data.val))

\* compare_equal, compare_greater, compare_lesser: a bool written at dest
Compare(c, a, b, dest, Rel(_, _)) ==
    LET a_data == read_typed_i64(c.memory, a)
        b_data == read_typed_i64(c.memory, b)
    IN IF a_data.panic \/ b_data.panic THEN Faulted(c, MsgIndex)
       ELSE write_bool_to_symbol(c, dest, Rel(a_data.val, b_data.val))

i64_eq(x, y) == x = y
i64_gt(x, y) == i64_lt(y, x)

compare_equal(c, a, b, dest) == Compare(c, a, b, dest, i64_eq)

compare_greater(c, a, b, dest) == Compare(c, a, b, dest, i64_gt)

compare_lesser(c, a, b, dest) == Compare(c, a, b, dest, i64_lt)

\* jump: stack.jump(target)
jump(c, target) == [cpu |-> program_jump(c, target), res |-> InterruptOk]

\* jump_if_true: read a bool at condition, jump or increment
jump_if_true(c, target, condition) ==
    LET v == read_typed_bool(c.memory, condition)
    IN IF v.panic THEN Faulted(c, MsgIndex)
       ELSE [cpu |-> IF v.val THEN program_jump(c, target) ELSE program_increment(c),
             res |-> InterruptOk]

\* the match of execute_instruction: one arm per implemented variant, the
\* catch-all arm for the rest
Dispatch(c, i) ==
    CASE i.op = "WriteStringToSymbol" -> write_string_to_symbol(c, i.a, i.bytes)
      [] i.op = "WriteIntToSymbol"    -> write_int_to_symbol(c, i.a, i.bytes)
      [] i.op = "WriteBoolToSymbol"   -> write_bool_to_symbol(c, i.a, i.b = 1)
      [] i.op = "WriteBytesToSymbol"  -> write_bytes_to_symbol(c, i.a, i.bytes)
      [] i.op = "MemCpy"              -> copy_symbol(c, i.a, i.b, i.c)
      [] i.op = "AddSymbols"          -> add_symbols(c, i.a, i.b, i.c)
      [] i.op = "SubtractSymbols"     -> subtract_symbols(c, i.a, i.b, i.c)
      [] i.op = "MultiplySymbols"     -> multiply_symbols(c, i.a, i.b, i.c)
      [] i.op = "DivideSymbols"       -> divide_symbols(c, i.a, i.b, i.c)
      [] i.op = "ModuloSymbols"       -> modulo_symbols(c, i.a, i.b, i.c)
      [] i.op = "MinSymbols"          -> min_symbols(c, i.a, i.b, i.c)
      [] i.op = "MaxSymbols"          -> max_symbols(c, i.a, i.b, i.c)
      [] i.op = "FmaSymbols"          -> fma_symbols(c, i.a, i.b, i.c, i.d)
      [] i.op = "CompareEqual"        -> compare_equal(c, i.a, i.b, i.c)
      [] i.op = "CompareGreater"      -> compare_greater(c, i.a, i.b, i.c)
      [] i.op = "CompareLesser"       -> compare_lesser(c, i.a, i.b, i.c)
      [] i.op = "Jump"                -> jump(c, i.a)
      [] i.op = "JumpIfTrue"          -> jump_if_true(c, i.a, i.b)
      [] i.op = "Await"               -> [cpu |-> c, res |-> Interrupt("Await", <<i.a, i.b>>)]
      [] i.op = "CreateCoroutine"     ->
             [cpu |-> c, res |-> Interrupt("CreateCoroutine", <<i.a, i.b, i.c, i.d>>)]
      [] i.op = "Return"              -> [cpu |-> c, res |-> Interrupt("Ret", <<i.a, i.b>>)]
      [] i.op = "DeleteFuture"        -> [cpu |-> c, res |-> Interrupt("DeleteFuture", <<i.a>>)]
      [] i.op = "NoOp"                -> [cpu |-> c, res |-> InterruptOk]
      [] OTHER                        -> [cpu |-> c, res |-> Err(MsgUnimplemented)]

\* execute_instruction: the match, then program.increment() for every
\* variant but Jump and JumpIfTrue, then the result
execute_instruction(c, i) ==
    LET r == Dispatch(c, i)
    IN IF r.res.tag = "Panic" THEN r
       ELSE IF i.op \in {"Jump", "JumpIfTrue"} THEN r
       ELSE [cpu |-> program_increment(r.cpu), res |-> r.res]

\* ------------------------------------------------- the inputs of the CPU
W(x) == LeBytes(x, WordBytes)
I64Max   == [i \in 1..WordBytes |-> IF i = WordBytes THEN 127 ELSE 255]
I64Min   == [i \in 1..WordBytes |-> IF i = WordBytes THEN 128 ELSE 0]
MinusOne == [i \in 1..WordBytes |-> 255]

\* a String is the sequence of its chars
StrHi     == << 72, 105 >>      \* "Hi"
StrEAcute == << 233 >>          \* "é", U+00E9, two bytes in UTF-8

\* memories a coroutine can hold: spawn_coro sizes the memory to the argument
\* bytes and copies them in at address 0; the capacity of the Vec is at least
\* its length
CpuMemories ==
    { [memory |-> Zeros(32), capacity |-> 32],
      [memory |-> W(1) \o W(2) \o W(0) \o W(0), capacity |-> 32],
      [memory |-> I64Max \o W(1) \o W(2) \o W(0), capacity |-> 32],
      [memory |-> I64Min \o MinusOne \o W(1) \o W(0), capacity |-> 32],
      [memory |-> << 1, 2, 3, 0 >>, capacity |-> 4],
      [memory |-> << 1, 2, 3, 0 >>, capacity |-> 8] }

CpuPcs      == {0, 3}
OperandAddrs == {0, 8}
DivisorAddrs == {8}
DestAddrs    == {24}
IntAddrs     == {0, 8, 28}
IntValues    == {W(3), MinusOne}
BoolAddrs    == {0, 1, 32}
BlobAddrs    == {0, 1}
Blobs        == { <<7>>, <<7, 9>> }
StrAddrs     == {0, 30}
Strings      == {StrHi, StrEAcute}
CopySources  == {0, 1}
CopyDests    == {0, 1, 2, 30}
CopyLens     == 0..3
Targets      == {0, 5}
Conditions   == {0, 1, 3, 32}

SchedIdle ==
    /\ SchedInit
    /\ program = 1

CpuInit ==
    /\ SchedIdle
    /\ \E m \in CpuMemories, p \in CpuPcs, oc \in BOOLEAN :
          cpu = [memory |-> m.memory, capacity |-> m.capacity, pc |-> p,
                 overflow_checks |-> oc]
    /\ ir = NoInstr
    /\ io = IoIdle

\* one call of execute_instruction on the instruction i
Exec(i) ==
    /\ ir.n < MaxExec
    /\ ir.res.tag # "Panic"
    /\ LET r == execute_instruction(cpu, i)
       IN /\ cpu' = r.cpu
          /\ ir' = [instr |-> i, cpu |-> cpu, res |-> r.res, n |-> ir.n + 1]
    /\ UNCHANGED << schedVars, io >>

\* the instructions a program may hold at the pc, one set per variant
WriteStringInstrs == { WriteStringToSymbol(addr, s) : addr \in StrAddrs, s \in Strings }
WriteIntInstrs    == { WriteIntToSymbol(addr, v) : addr \in IntAddrs, v \in IntValues }
WriteBoolInstrs   == { WriteBoolToSymbol(addr, v) : addr \in BoolAddrs, v \in BOOLEAN }
WriteBytesInstrs  == { WriteBytesToSymbol(addr, v) : addr \in BlobAddrs, v \in Blobs }
MemCpyInstrs      ==
    { MemCpy(source, dest, n) : source \in CopySources, dest \in CopyDests, n \in CopyLens }
MemExtendInstrs   == { MemExtend(n) : n \in {0, 2} }
AddInstrs         ==
    { AddSymbols(a, b, dest) : a \in OperandAddrs, b \in OperandAddrs, dest \in DestAddrs }
SubtractInstrs    ==
    { SubtractSymbols(a, b, dest) : a \in OperandAddrs, b \in OperandAddrs, dest \in DestAddrs }
MultiplyInstrs    ==
    { MultiplySymbols(a, b, dest) : a \in OperandAddrs, b \in OperandAddrs, dest \in DestAddrs }
DivideInstrs      ==
    { DivideSymbols(a, b, dest) : a \in OperandAddrs, b \in DivisorAddrs, dest \in DestAddrs }
ModuloInstrs      ==
    { ModuloSymbols(a, b, dest) : a \in OperandAddrs, b \in DivisorAddrs, dest \in DestAddrs }
MinInstrs         ==
    { MinSymbols(a, b, dest) : a \in OperandAddrs, b \in OperandAddrs, dest \in DestAddrs }
MaxInstrs         ==
    { MaxSymbols(a, b, dest) : a \in OperandAddrs, b \in OperandAddrs, dest \in DestAddrs }
FmaInstrs         ==
    { FmaSymbols(a, b, 16, dest) : a \in OperandAddrs, b \in OperandAddrs, dest \in DestAddrs }
CompareEqualInstrs ==
    { CompareEqual(a, b, dest) : a \in OperandAddrs, b \in OperandAddrs, dest \in DestAddrs }
CompareGreaterInstrs ==
    { CompareGreater(a, b, dest) : a \in OperandAddrs, b \in OperandAddrs, dest \in DestAddrs }
CompareLesserInstrs ==
    { CompareLesser(a, b, dest) : a \in OperandAddrs, b \in OperandAddrs, dest \in DestAddrs }
JumpInstrs        == { Jump(target) : target \in Targets }
JumpIfTrueInstrs  ==
    { JumpIfTrue(target, condition) : target \in Targets, condition \in Conditions }
AwaitInstrs       == { Await(fut_id, 0) : fut_id \in FutIds }
CreateCoroutineInstrs == { CreateCoroutine(dest, 0, 1, 1) : dest \in Targets }
ReturnInstrs      == { Return(0, n) : n \in {0, 1} }
DeleteFutureInstrs == { DeleteFuture(fut_id) : fut_id \in FutIds }
NoOpInstrs        == { NoOp }

Exec_WriteStringToSymbol == \E i \in WriteStringInstrs : Exec(i)

Exec_WriteIntToSymbol == \E i \in WriteIntInstrs : Exec(i)

Exec_WriteBoolToSymbol == \E i \in WriteBoolInstrs : Exec(i)

Exec_WriteBytesToSymbol == \E i \in WriteBytesInstrs : Exec(i)

Exec_MemCpy == \E i \in MemCpyInstrs : Exec(i)

Exec_MemExtend == \E i \in MemExtendInstrs : Exec(i)

Exec_AddSymbols == \E i \in AddInstrs : Exec(i)

Exec_SubtractSymbols == \E i \in SubtractInstrs : Exec(i)

Exec_MultiplySymbols == \E i \in MultiplyInstrs : Exec(i)

Exec_DivideSymbols == \E i \in DivideInstrs : Exec(i)

Exec_ModuloSymbols == \E i \in ModuloInstrs : Exec(i)

Exec_MinSymbols == \E i \in MinInstrs : Exec(i)

Exec_MaxSymbols == \E i \in MaxInstrs : Exec(i)

Exec_FmaSymbols == \E i \in FmaInstrs : Exec(i)

Exec_CompareEqual == \E i \in CompareEqualInstrs : Exec(i)

Exec_CompareGreater == \E i \in CompareGreaterInstrs : Exec(i)

Exec_CompareLesser == \E i \in CompareLesserInstrs : Exec(i)

Exec_Jump == \E i \in JumpInstrs : Exec(i)

Exec_JumpIfTrue == \E i \in JumpIfTrueInstrs : Exec(i)

Exec_Await == \E i \in AwaitInstrs : Exec(i)

Exec_CreateCoroutine == \E i \in CreateCoroutineInstrs : Exec(i)

Exec_Return == \E i \in ReturnInstrs : Exec(i)

Exec_DeleteFuture == \E i \in DeleteFutureInstrs : Exec(i)

Exec_NoOp == \E i \in NoOpInstrs : Exec(i)

CpuNext ==
    \/ Exec_WriteStringToSymbol
    \/ Exec_WriteIntToSymbol
    \/ Exec_WriteBoolToSymbol
    \/ Exec_WriteBytesToSymbol
    \/ Exec_MemCpy
    \/ Exec_MemExtend
    \/ Exec_AddSymbols
    \/ Exec_SubtractSymbols
    \/ Exec_MultiplySymbols
    \/ Exec_DivideSymbols
    \/ Exec_ModuloSymbols
    \/ Exec_MinSymbols
    \/ Exec_MaxSymbols
    \/ Exec_FmaSymbols
    \/ Exec_CompareEqual
    \/ Exec_CompareGreater
    \/ Exec_CompareLesser
    \/ Exec_Jump
    \/ Exec_JumpIfTrue
    \/ Exec_Await
    \/ Exec_CreateCoroutine
    \/ Exec_Return
    \/ Exec_DeleteFuture
    \/ Exec_NoOp

CpuSpec == CpuInit /\ [][CpuNext]_vars

\* C21: memory round trip.  After an immediate write of an i64, a bool or a
\* byte blob v at an address a with a + size_of(v) inside the memory, the
\* instruction has succeeded, reading the type at a gives v back (for a blob:
\* the bytes at [a, a + len(v)) are v), the memory has kept its size and no
\* byte outside [a, a + size_of(v)) has changed.
C21_MemoryRoundTrip ==
    /\ ( /\ ir.n > 0
         /\ ir.instr.op = "WriteIntToSymbol"
         /\ ir.instr.a + WordBytes <= Len(ir.cpu.memory) )
       => /\ ir.res = InterruptOk
          /\ read_typed_i64(cpu.memory, ir.instr.a) = [val |-> ir.instr.bytes, panic |-> FALSE]
          /\ Len(cpu.memory) = Len(ir.cpu.memory)
          /\ \A k \in 1..Len(ir.cpu.memory) :
                (k <= ir.instr.a \/ k > ir.instr.a + WordBytes)
                   => cpu.memory[k] = ir.cpu.memory[k]
    /\ ( /\ ir.n > 0
         /\ ir.instr.op = "WriteBoolToSymbol"
         /\ ir.instr.a + 1 <= Len(ir.cpu.memory) )
       => /\ ir.res = InterruptOk
          /\ read_typed_bool(cpu.memory, ir.instr.a) = [val |-> (ir.instr.b = 1), panic |-> FALSE]
          /\ Len(cpu.memory) = Len(ir.cpu.memory)
          /\ \A k \in 1..Len(ir.cpu.memory) :
                k # ir.instr.a + 1 => cpu.memory[k] = ir.cpu.memory[k]
    /\ ( /\ ir.n > 0
         /\ ir.instr.op = "WriteBytesToSymbol"
         /\ ir.instr.a + Len(ir.instr.bytes) <= Len(ir.cpu.memory) )
       => /\ ir.res = InterruptOk
          /\ Len(cpu.memory) = Len(ir.cpu.memory)
          /\ SubSeq(cpu.memory, ir.instr.a + 1, ir.instr.a + Len(ir.instr.bytes)) = ir.instr.bytes
          /\ \A k \in 1..Len(ir.cpu.memory) :
                (k <= ir.instr.a \/ k > ir.instr.a + Len(ir.instr.bytes))
                   => cpu.memory[k] = ir.cpu.memory[k]

\* C22: string round trip.  After WriteStringToSymbol(a, s) on a zero-filled
\* memory, for a string s without NUL whose UTF-8 bytes fit at a, the
\* instruction has succeeded, the bytes at [a, a + len(s)) are the UTF-8
\* encoding of s (len(s) is its length in bytes), every other byte is still
\* 0, and reading a String at a gives s back.
C22_StringRoundTrip ==
    ( /\ ir.n > 0
      /\ ir.instr.op = "WriteStringToSymbol"
      /\ ir.cpu.memory = Zeros(Len(ir.cpu.memory))
      /\ \A k \in 1..Len(ir.instr.bytes) : ir.instr.bytes[k] # 0
      /\ ir.instr.a + Len(Utf8(ir.instr.bytes)) <= Len(ir.cpu.memory) )
    => /\ ir.res = InterruptOk
       /\ string_get_size(ir.instr.bytes) = Len(Utf8(ir.instr.bytes))
       /\ Len(cpu.memory) = Len(ir.cpu.memory)
       /\ SubSeq(cpu.memory, ir.instr.a + 1, ir.instr.a + Len(Utf8(ir.instr.bytes)))
             = Utf8(ir.instr.bytes)
       /\ \A k \in 1..Len(cpu.memory) :
             (k <= ir.instr.a \/ k > ir.instr.a + Len(Utf8(ir.instr.bytes)))
                => cpu.memory[k] = 0
       /\ read_typed_String(cpu.memory, ir.instr.a) = [val |-> ir.instr.bytes, panic |-> FALSE]

\* C23: memcpy is faithful on ranges that do not overlap.  After
\* MemCpy(src, dst, n) with [src, src+n) and [dst, dst+n) inside the memory
\* and disjoint, the instruction has succeeded, the bytes at [dst, dst+n) are
\* the bytes that were at [src, src+n), the bytes at [src, src+n) are as they
\* were, and so is every byte outside [dst, dst+n); the size is the same.
C23_MemcpyFaithful ==
    ( /\ ir.n > 0
      /\ ir.instr.op = "MemCpy"
      /\ ir.instr.a + ir.instr.c <= Len(ir.cpu.memory)
      /\ ir.instr.b + ir.instr.c <= Len(ir.cpu.memory)
      /\ \/ ir.instr.a + ir.instr.c <= ir.instr.b
         \/ ir.instr.b + ir.instr.c <= ir.instr.a )
    => /\ ir.res = InterruptOk
       /\ Len(cpu.memory) = Len(ir.cpu.memory)
       /\ \A k \in 1..ir.instr.c :
             /\ cpu.memory[ir.instr.b + k] = ir.cpu.memory[ir.instr.a + k]
             /\ cpu.memory[ir.instr.a + k] = ir.cpu.memory[ir.instr.a + k]
       /\ \A k \in 1..Len(ir.cpu.memory) :
             (k <= ir.instr.b \/ k > ir.instr.b + ir.instr.c)
                => cpu.memory[k] = ir.cpu.memory[k]

\* C23 witness: two bytes were copied from [0, 2) to [2, 4) of the memory
\* [1, 2, 3, 0], which now reads [1, 2, 1, 2]
C23_Witness ==
    /\ ir.n > 0
    /\ ir.instr = MemCpy(0, 2, 2)
    /\ ir.res = InterruptOk
    /\ ir.cpu.memory = << 1, 2, 3, 0 >>
    /\ cpu.memory = << 1, 2, 1, 2 >>

\* C24: memcpy on any ranges inside the memory, overlapping ones included,
\* copies as through a temporary buffer: it succeeds and the bytes at
\* [dst, dst+n) afterwards are the bytes that were at [src, src+n) before.
C24_MemcpyOverlap ==
    ( /\ ir.n > 0
      /\ ir.instr.op = "MemCpy"
      /\ ir.instr.a + ir.instr.c <= Len(ir.cpu.memory)
      /\ ir.instr.b + ir.instr.c <= Len(ir.cpu.memory) )
    => /\ ir.res = InterruptOk
       /\ Len(cpu.memory) = Len(ir.cpu.memory)
       /\ \A k \in 1..ir.instr.c :
             cpu.memory[ir.instr.b + k] = ir.cpu.memory[ir.instr.a + k]

\* C25: an access past the end of the memory is an error and changes
\* nothing.  An immediate write of an i64, a bool, a blob or a string whose
\* bytes do not fit at the address, and a MemCpy whose source or destination
\* range ends past the memory size, each return a failure (the instruction
\* returns Err, it does not panic) and leave the memory exactly as it was.
C25_OutOfBounds ==
    ( /\ ir.n > 0
      /\ \/ /\ ir.instr.op = "WriteIntToSymbol"
            /\ ir.instr.a + WordBytes > Len(ir.cpu.memory)
         \/ /\ ir.instr.op = "WriteBoolToSymbol"
            /\ ir.instr.a + 1 > Len(ir.cpu.memory)
         \/ /\ ir.instr.op \in {"WriteBytesToSymbol", "WriteStringToSymbol"}
            /\ ir.instr.a + Len(ir.instr.bytes) > Len(ir.cpu.memory)
         \/ /\ ir.instr.op = "MemCpy"
            /\ \/ ir.instr.a + ir.instr.c > Len(ir.cpu.memory)
               \/ ir.instr.b + ir.instr.c > Len(ir.cpu.memory) )
    => /\ ir.res.tag = "Err"
       /\ cpu.memory = ir.cpu.memory

\* C26: MemExtend(n) succeeds and appends exactly n zero bytes after the
\* existing content, which it leaves as it was; and no instruction ever makes
\* the memory smaller.
C26_MemExtend ==
    /\ (ir.n > 0 /\ ir.instr.op = "MemExtend")
          => /\ ir.res = InterruptOk
             /\ cpu.memory = ir.cpu.memory \o Zeros(ir.instr.a)
    /\ ir.n > 0 => Len(cpu.memory) >= Len(ir.cpu.memory)

\* C27: AddSymbols, SubtractSymbols, MultiplySymbols and FmaSymbols on
\* operands that can be read, with a dest that can be written, raise no
\* fault and leave at dest the exact result modulo 2^64 (two's complement
\* wrapping), also when the exact result does not fit in an i64; every other
\* byte is unchanged; in particular 1 + 2 = 3.
C27_WrappingArithmetic ==
    ( /\ ir.n > 0
      /\ ir.instr.op \in {"AddSymbols", "SubtractSymbols", "MultiplySymbols", "FmaSymbols"}
      /\ ir.instr.a + WordBytes <= Len(ir.cpu.memory)
      /\ ir.instr.b + WordBytes <= Len(ir.cpu.memory)
      /\ ir.instr.c + WordBytes <= Len(ir.cpu.memory)
      /\ (ir.instr.op = "FmaSymbols") => (ir.instr.d + WordBytes <= Len(ir.cpu.memory)) )
    => LET x    == SubSeq(ir.cpu.memory, ir.instr.a + 1, ir.instr.a + WordBytes)
           y    == SubSeq(ir.cpu.memory, ir.instr.b + 1, ir.instr.b + WordBytes)
           z    == SubSeq(ir.cpu.memory, ir.instr.c + 1, ir.instr.c + WordBytes)
           dest == IF ir.instr.op = "FmaSymbols" THEN ir.instr.d ELSE ir.instr.c
           want == CASE ir.instr.op = "AddSymbols"      -> wrapping_add(x, y)
                     [] ir.instr.op = "SubtractSymbols" -> wrapping_sub(x, y)
                     [] ir.instr.op = "MultiplySymbols" -> wrapping_mul(x, y)
                     [] ir.instr.op = "FmaSymbols"      -> wrapping_add(wrapping_mul(x, y), z)
       IN /\ ir.res = InterruptOk
          /\ Len(cpu.memory) = Len(ir.cpu.memory)
          /\ SubSeq(cpu.memory, dest + 1, dest + WordBytes) = want
          /\ \A k \in 1..Len(ir.cpu.memory) :
                (k <= dest \/ k > dest + WordBytes) => cpu.memory[k] = ir.cpu.memory[k]
          /\ (ir.instr.op = "AddSymbols" /\ x = W(1) /\ y = W(2)) => (want = W(3))

\* C29: the pc after an instruction that is not control flow.  Executing any
\* instruction other than Jump, JumpIfTrue, Await, CreateCoroutine and Return
\* from pc p leaves the pc at exactly p + 1.
C29_PcAdvances ==
    ( /\ ir.n > 0
      /\ ir.instr.op \notin {"Jump", "JumpIfTrue", "Await", "CreateCoroutine", "Return"} )
    => cpu.pc = ir.cpu.pc + 1

\* C30: Jump(t) sets the pc to t.  JumpIfTrue(t, c) with c inside the memory,
\* executed at pc p, sets the pc to t when the byte at c is not 0 (any of
\* 1..255) and to exactly p + 1 when it is 0.  Neither changes the memory.
C30_Jumps ==
    /\ (ir.n > 0 /\ ir.instr.op = "Jump")
          => /\ ir.res = InterruptOk
             /\ cpu.pc = ir.instr.a
             /\ cpu.memory = ir.cpu.memory
    /\ (ir.n > 0 /\ ir.instr.op = "JumpIfTrue" /\ ir.instr.b + 1 <= Len(ir.cpu.memory))
          => /\ ir.res = InterruptOk
             /\ cpu.pc = IF ir.cpu.memory[ir.instr.b + 1] # 0 THEN ir.instr.a
                         ELSE ir.cpu.pc + 1
             /\ cpu.memory = ir.cpu.memory

\* ------------------------------------------------------------------- io.rs
MaxIo == 4       \* calls made on one ConcordeIO

MsgCouldNotOpen    == "Could not open file"
MsgFailedToRead    == "Failed to read"
MsgFailedToWrite   == "Failed to write"
MsgFailedToClose   == "Failed to close file"
MsgReadUndefined   == "Tried to read from undefined stream"
MsgWriteUndefined  == "Tried to write to undefined stream"
MsgCloseUndefined  == "Tried to close undefined stream"

Stdio == "stdio"

\* out_name: the name with ".tmp" pushed on it
TmpName(name) == name \o ".tmp"

\* The disk is a directory, names -> file, and the bytes of each file; an open
\* File keeps its file across a rename.  The file 0 stands for stdin / stdout.
StdFile == 0

\* a file written from offset 0 without truncation
Overwrite(content, buf) ==
    IF Len(buf) >= Len(content) THEN buf
    ELSE buf \o SubSeq(content, Len(buf) + 1, Len(content))

\* dropping a BufWriter writes what it still holds into its file
DropWriter(d, s) ==
    IF s.writer = StdFile
    THEN [d EXCEPT !.stdout = d.stdout \o s.buffer]
    ELSE [d EXCEPT !.data = MapPut(d.data, s.writer, Overwrite(d.data[s.writer], s.buffer))]

ConcordeStream(name, reader, writer) ==
    [name |-> name, reader |-> reader, writer |-> writer, rbuf |-> NoBytes,
     roff |-> 0, buffer |-> NoBytes, has_written |-> FALSE]

ConcordeStream_open(d, name) ==
    IF name = Stdio
    THEN [res |-> Ok(NoBytes), stream |-> ConcordeStream(name, StdFile, StdFile)]
    ELSE IF name \in DOMAIN d.names /\ TmpName(name) \in DOMAIN d.names
         THEN [res |-> Ok(NoBytes),
               stream |-> ConcordeStream(name, d.names[name], d.names[TmpName(name)])]
         ELSE [res |-> Err(MsgCouldNotOpen), stream |-> ConcordeStream(name, StdFile, StdFile)]

\* the BufReader is filled from the file when it is empty; stdin is at its end
ConcordeStream_read(d, s, n) ==
    LET content == IF s.reader = StdFile THEN NoBytes ELSE d.data[s.reader]
        fill    == s.rbuf = NoBytes /\ s.roff < Len(content)
        held    == IF fill THEN SubSeq(content, s.roff + 1, Len(content)) ELSE s.rbuf
        roff    == IF fill THEN Len(content) ELSE s.roff
        got     == IF n < Len(held) THEN n ELSE Len(held)
    IN [res |-> Ok(<< SubSeq(held, 1, got) \o Zeros(n - got), got >>),
        stream |-> [s EXCEPT !.rbuf = SubSeq(held, got + 1, Len(held)), !.roff = roff]]

\* fails: the write of the underlying stream returned an error
ConcordeStream_write(s, buf, fails) ==
    IF fails
    THEN [res |-> Err(MsgFailedToWrite), stream |-> s]
    ELSE [res |-> Ok(<< Len(buf) >>),
          stream |-> [s EXCEPT !.buffer = s.buffer \o buf, !.has_written = TRUE]]

ConcordeStream_close(d, s) ==
    LET f == DropWriter(d, s)
        out_name == TmpName(s.name)
    IN IF s.name # Stdio
       THEN IF out_name \in DOMAIN f.names
            THEN [res |-> Ok(NoBytes),
                  io |-> [f EXCEPT !.names =
                              MapPut(MapDel(f.names, out_name), s.name, f.names[out_name])]]
            ELSE [res |-> Err(MsgFailedToClose), io |-> f]
       ELSE [res |-> Ok(NoBytes), io |-> f]

\* insert drops the stream the id held before
ConcordeIO_open(d, name, filename) ==
    LET o == ConcordeStream_open(d, filename)
    IN IF o.res.tag = "Err"
       THEN [res |-> o.res, io |-> d]
       ELSE LET f == IF name \in DOMAIN d.streams THEN DropWriter(d, d.streams[name])
                     ELSE d
            IN [res |-> Ok(NoBytes),
                io |-> [f EXCEPT !.streams = MapPut(f.streams, name, o.stream)]]

ConcordeIO_read(d, name, n) ==
    IF name \in DOMAIN d.streams
    THEN LET r == ConcordeStream_read(d, d.streams[name], n)
         IN [res |-> r.res, io |-> [d EXCEPT !.streams = MapPut(d.streams, name, r.stream)]]
    ELSE [res |-> Err(MsgReadUndefined), io |-> d]

ConcordeIO_write(d, name, buf, fails) ==
    IF name \in DOMAIN d.streams
    THEN LET r == ConcordeStream_write(d.streams[name], buf, fails)
         IN [res |-> r.res, io |-> [d EXCEPT !.streams = MapPut(d.streams, name, r.stream)]]
    ELSE [res |-> Err(MsgWriteUndefined), io |-> d]

ConcordeIO_close(d, name) ==
    IF name \in DOMAIN d.streams
    THEN ConcordeStream_close([d EXCEPT !.streams = MapDel(d.streams, name)], d.streams[name])
    ELSE [res |-> Err(MsgCloseUndefined), io |-> d]

\* the inputs of the calls, and the disks they start on
StreamIds   == {1, 2}
FileNames   == {Stdio, "a", "b"}
WriteBufs   == {<<7>>, <<8, 9>>}
ReadLens    == {1, 3}

Disk(names, data) == [IoIdle EXCEPT !.names = names, !.data = data]

\* "a" with "a.tmp" beside it, empty or left over from before, or with no
\* "a.tmp"; there is no "b"
IoDisks ==
    { Disk(("a" :> 1) @@ ("a.tmp" :> 2), (1 :> <<1, 2>>) @@ (2 :> NoBytes)),
      Disk(("a" :> 1) @@ ("a.tmp" :> 2), (1 :> <<1, 2>>) @@ (2 :> <<5, 6, 7>>)),
      Disk(("a" :> 1), (1 :> <<1, 2>>)) }

IoInit ==
    /\ SchedIdle
    /\ cpu = CpuIdle
    /\ ir = NoInstr
    /\ io \in IoDisks

IoCalled(op, id, name, r) ==
    /\ io.n < MaxIo
    /\ io' = [r.io EXCEPT !.n = io.n + 1,
                          !.last = [op |-> op, id |-> id, name |-> name, res |-> r.res,
                                    names |-> io.names, data |-> io.data,
                                    streams |-> io.streams]]
    /\ UNCHANGED << schedVars, cpu, ir >>

Io_open ==
    \E id \in StreamIds, filename \in FileNames :
        IoCalled("open", id, filename, ConcordeIO_open(io, id, filename))

Io_read ==
    \E id \in StreamIds, n \in ReadLens :
        IoCalled("read", id, "", ConcordeIO_read(io, id, n))

Io_write ==
    \E id \in StreamIds, buf \in WriteBufs, fails \in BOOLEAN :
        IoCalled("write", id, "", ConcordeIO_write(io, id, buf, fails))

Io_close ==
    \E id \in StreamIds :
        IoCalled("close", id, "", ConcordeIO_close(io, id))

IoNext ==
    \/ Io_open
    \/ Io_read
    \/ Io_write
    \/ Io_close

IoSpec == IoInit /\ [][IoNext]_vars

\* the stream a close has just taken out of the table, when it was a file
ClosedFile ==
    /\ io.last.op = "close"
    /\ io.last.id \in DOMAIN io.last.streams
    /\ io.last.streams[io.last.id].name # Stdio

\* the name of the closed stream now names the file that was its .tmp
Replaced(name) ==
    /\ TmpName(name) \in DOMAIN io.last.names
    /\ name \in DOMAIN io.names
    /\ io.names[name] = io.last.names[TmpName(name)]

\* the name of the closed stream names the file it named, with the same bytes
Untouched(name) ==
    /\ name \in DOMAIN io.last.names
    /\ name \in DOMAIN io.names
    /\ io.names[name] = io.last.names[name]
    /\ io.data[io.names[name]] = io.last.data[io.last.names[name]]

\* C28: closing a file stream.  close replaces the original file by its sibling
\* <name>.tmp if and only if at least one write succeeded on the stream between
\* open and close; a stream opened and closed without any write leaves the
\* original file untouched.
C28_CloseReplacesIffWritten ==
    ClosedFile =>
        LET s == io.last.streams[io.last.id]
        IN /\ Replaced(s.name) <=> s.has_written
           /\ (~s.has_written) => Untouched(s.name)

\* C31: Await and CreateCoroutine advance the pc exactly once in total.  A step
\* of the run loop that handles an Await or a CreateCoroutine found at pc p
\* leaves the pc of that coroutine at exactly p + 1, whether or not another
\* coroutine is runnable.
C31_PcAdvancesOnce ==
    [][ ( /\ InLoop
          /\ last'.op \in {"Await", "CreateCoroutine"}
          /\ last'.res.tag = "Continue"
          /\ curr_coro_id \in DOMAIN coroutines' )
        => coroutines'[curr_coro_id].pc = coroutines[curr_coro_id].pc + 1
      ]_vars

\* C32: CreateCoroutine is not a context switch.  A step of the run loop that
\* handles a CreateCoroutine writes the id of the new coroutine's result future
\* at fid_out_addr in the memory of the current coroutine, puts the spawned
\* coroutine at the back of the ready queue and keeps the current coroutine
\* current; within the loop the current coroutine changes only when an Await
\* is handled, so the spawned coroutine does not run before that.
C32_CreateCoroutineNoSwitch ==
    [][ /\ ( /\ InLoop
             /\ last'.op = "CreateCoroutine"
             /\ last'.res.tag = "Continue" )
           => /\ curr_coro_id' = curr_coro_id
              /\ phase' = "running"
              /\ new_spawned_coro_id' = new_spawned_coro_id + 1
              /\ ready_queue' = Append(ready_queue, new_spawned_coro_id')
              /\ coroutines'[new_spawned_coro_id'].dependant = <<new_spawned_future_id'>>
              /\ SubSeq(coroutines'[curr_coro_id].memory, last'.addr + 1,
                        last'.addr + WordBytes) = usize_to_bytes(new_spawned_future_id')
        /\ (InLoop /\ phase' = "running" /\ curr_coro_id' # curr_coro_id)
           => last'.op = "Await"
      ]_vars

\* a CreateCoroutine was handled: the spawned coroutine waits at the back of
\* the queue and the loop goes on with its parent
C32_Witness ==
    /\ phase = "running"
    /\ last.op = "CreateCoroutine"
    /\ last.res.tag = "Continue"
    /\ curr_coro_id = last.coro
    /\ curr_coro_id # new_spawned_coro_id
    /\ ready_queue # <<>>
    /\ ready_queue[Len(ready_queue)] = new_spawned_coro_id

\* C33: the fast path of Await.  When the current coroutine, at pc p, awaits a
\* future that is already Complete with the value v, at a write address w with
\* [w, w + len(v)) inside its memory, the scheduler writes v at w, removes the
\* future from the coroutine's depends_on, marks the coroutine Runnable and
\* enqueues it (or goes on with it), and the coroutine resumes at p + 1: it
\* does not stay Suspended on the completed future.
C33_AwaitFastPath ==
    [][ ( /\ AtInstr
          /\ last'.op = "Await"
          /\ I.a \in DOMAIN futures
          /\ futures[I.a].state = "Complete"
          /\ futures[I.a].value # <<>>
          /\ I.b + Len(futures[I.a].value[1]) <= Len(coroutines[curr_coro_id].memory) )
        => LET c == curr_coro_id
               v == futures[I.a].value[1]
           IN /\ last'.res.tag = "Continue"
              /\ c \in DOMAIN coroutines'
              /\ SubSeq(coroutines'[c].memory, I.b + 1, I.b + Len(v)) = v
              /\ I.a \notin DOMAIN coroutines'[c].depends_on
              /\ coroutines'[c].state = "Runnable"
              /\ (curr_coro_id' = c \/ \E k \in DOMAIN ready_queue' : ready_queue'[k] = c)
              /\ coroutines'[c].pc = coroutines[c].pc + 1
      ]_vars

\* how many entries of the queue q name the coroutine c
Entries(q, c) == Cardinality({k \in DOMAIN q : q[k] = c})

\* C34: complete_future(f, v) wakes exactly the waiters of f, each exactly
\* once.  After a successful call every coroutine that had f in its depends_on
\* is Runnable and has one more entry in the ready queue, and every coroutine
\* that did not await f, the one that produces f included, has the state and
\* the ready-queue entries it had.
C34_WakesExactlyWaiters ==
    [][ ( /\ last'.op = "complete_future"
          /\ last'.res.tag = "Ok" )
        => \A c \in DOMAIN coroutines :
              /\ c \in DOMAIN coroutines'
              /\ IF last'.fut \in DOMAIN coroutines[c].depends_on
                 THEN /\ coroutines'[c].state = "Runnable"
                      /\ Entries(ready_queue', c) = Entries(ready_queue, c) + 1
                 ELSE /\ coroutines'[c].state = coroutines[c].state
                      /\ Entries(ready_queue', c) = Entries(ready_queue, c)
      ]_vars

Live(cs, id) == id \in DOMAIN cs /\ cs[id].state = "Runnable"

\* C37: get_next_runnable never returns a stale entry.  An id it returns (to a
\* direct caller, to the entry of _run, or to the Await handler) is in the
\* coroutine table with the state Runnable at that moment, and every entry it
\* took off the queue before that one names a coroutine that is gone or not
\* Runnable; it returns None only when no entry of the queue names a Runnable
\* coroutine, and then it leaves the queue empty.  The table is not changed.
C37_NoStaleEntry ==
    [][ /\ (last'.op = "get_next_runnable")
           => LET got  == last'.res.val
                  gone == Len(ready_queue) - Len(ready_queue')
              IN /\ coroutines' = coroutines
                 /\ ready_queue' = SubSeq(ready_queue, gone + 1, Len(ready_queue))
                 /\ IF got # <<>>
                    THEN /\ Live(coroutines', got[1])
                         /\ gone >= 1 /\ ready_queue[gone] = got[1]
                         /\ \A k \in 1..(gone - 1) : ~Live(coroutines, ready_queue[k])
                    ELSE /\ ready_queue' = <<>>
                         /\ \A k \in 1..Len(ready_queue) : ~Live(coroutines, ready_queue[k])
        /\ (last'.op \in {"_run", "run"} /\ phase' = "running")
           => Live(coroutines', curr_coro_id')
        /\ (last'.op \in {"_run", "run"} /\ phase' # "running")
           => (ready_queue' = <<>> /\ last'.res.tag = "Ok")
        /\ (last'.op = "Await" /\ last'.res.tag = "Continue")
           => IF running' THEN Live(coroutines', curr_coro_id')
              ELSE ready_queue' = <<>>
      ]_vars

\* spawn_coro twice, await_future for coroutine 1, get_next_runnable: the
\* entry of the Suspended coroutine 1 was discarded and 2 was returned
C37_Witness ==
    /\ last.op = "get_next_runnable"
    /\ last.res.val = <<2>>
    /\ calls = 4
    /\ 1 \in DOMAIN coroutines
    /\ coroutines[1].state = "Suspended"
    /\ ready_queue = <<>>

\* C38: complete_future with an error value.  Called with Err(e) on a Waiting
\* future it returns Err(e) and changes nothing: the future is still Waiting
\* with no value and the same dependants, no coroutine has changed and the
\* ready queue is the same.  Called on an unknown future id it returns an error
\* and the scheduler is unchanged as well.
C38_ErrorValueChangesNothing ==
    [][ /\ ( /\ last'.op = "complete_future"
             /\ last'.value.tag = "Err"
             /\ last'.fut \in DOMAIN futures
             /\ futures[last'.fut].state = "Waiting" )
           => /\ last'.res = Err(last'.value.msg)
              /\ futures'[last'.fut].state = "Waiting"
              /\ futures'[last'.fut].value = <<>>
              /\ futures'[last'.fut].dependants = futures[last'.fut].dependants
              /\ UNCHANGED << coroutines, futures, ready_queue, new_spawned_coro_id,
                              new_spawned_future_id, running >>
        /\ ( /\ last'.op = "complete_future"
             /\ last'.fut \notin DOMAIN futures )
           => /\ last'.res = Err(MsgFutureNotFound)
              /\ UNCHANGED << coroutines, futures, ready_queue, new_spawned_coro_id,
                              new_spawned_future_id, running >>
      ]_vars

\* complete_future was called with an error on a future that is Waiting with a
\* Suspended coroutine depending on it: the error came back, the waiter waits
C38_Witness ==
    /\ last.op = "complete_future"
    /\ last.value = Err(MsgCallerError)
    /\ last.res = Err(MsgCallerError)
    /\ last.fut \in DOMAIN futures
    /\ futures[last.fut].state = "Waiting"
    /\ futures[last.fut].value = <<>>
    /\ \E c \in futures[last.fut].dependants :
          /\ c \in DOMAIN coroutines
          /\ coroutines[c].state = "Suspended"
          /\ last.fut \in DOMAIN coroutines[c].depends_on

\* C39: in every reachable state of a scheduler that has not panicked, a
\* future that is Complete has no dependants, also after a coroutine has
\* awaited a future that was already Complete.
C39_CompleteHasNoDependants ==
    (phase # "panicked") =>
        \A f \in DOMAIN futures :
            (futures[f].state = "Complete") => (futures[f].dependants = {})

====
